---- MODULE Spec2Model ----
(***************************************************************************)
(* Ingestion / caching / polling core of where-is-51b.                     *)
(*                                                                         *)
(*   - HybridCache (backend/src/utils/cache.ts): Redis primary store with  *)
(*     an in-process fallback map, getCachedOrFetch on top of it.          *)
(*   - ACTRealtimeService (backend/src/services/actRealtime.ts): the       *)
(*     batching lookups fetchBusStopProfiles / fetchBusStopPredictions     *)
(*     and their raw, single-request counterparts.                         *)
(*   - the polling subscriptions busPositions, busStopPredictions and      *)
(*     systemTime (backend/src/schema/*/*.resolver.ts), which are async    *)
(*     generators driven by a consumer's next() / return() requests.       *)
(*                                                                         *)
(* Stop codes are modelled as naturals (5-digit codes of equal length sort *)
(* alike as strings and as numbers).  Time is in milliseconds.             *)
(***************************************************************************)
EXTENDS Integers, Sequences, FiniteSets, TLC

\* ------------------------------------------------------------------ bounds
MaxN == 12
NumCodes == 11
MaxCalls == 2
MaxPulls == 4
MaxTmLen == 2

\* concurrent callers of getCachedOrFetch
MaxCallers == 2

\* the first entries of a run of sets may be short-lived
MaxShortLived == 3

\* the longest list of records handed to a normalizer
MaxRecords == 3

\* ------------------------------------------------------- program constants
chunkSize == 10
POLLING_INTERVAL == 15000
CACHE_TTL_VEHICLE_POSITIONS == 10
CACHE_TTL_PREDICTIONS == 15
CACHE_TTL_BUS_STOP_PROFILES == 86400
cleanupThreshold == 100

\* getCachedOrFetch(key, fetcher, ttl = 60)
DEFAULT_TTL == 60

VARIABLES
    \* configuration (utils/config.ts), fixed after start
    ENABLE_CACHE, redisConfigured,
    \* HybridCache
    isRedisAvailable, redisStore, memoryCache, now,
    \* one batching / getCachedOrFetch call of ACTRealtimeService or GTFSRealtimeService
    stopCodes, op, callState, tasks, result, requests, calls, coldStart,
    \* one polling subscription (async generator) and its consumer
    kind, source, pc, step, nextPending, cancelled, pulls,
    emitted, fetches, waits, httpCalls, transientSeen,
    \* one call of a formatter or of the timestamp resolver: which function,
    \* its arguments and environment, what it returned
    fn, input, output

callVars == <<stopCodes, op, callState, tasks, result, requests, calls, coldStart>>
streamVars == <<kind, source, pc, step, nextPending, cancelled, pulls, emitted, fetches, waits, transientSeen>>
vars == <<ENABLE_CACHE, redisConfigured, isRedisAvailable, redisStore, memoryCache, now,
          stopCodes, op, callState, tasks, result, requests, calls, coldStart,
          kind, source, pc, step, nextPending, cancelled, pulls,
          emitted, fetches, waits, httpCalls, transientSeen,
          fn, input, output>>
formatVars == <<fn, input, output>>

\* ----------------------------------------------------------------- helpers
Range(s) == {s[i] : i \in DOMAIN s}

Max(S) == CHOOSE x \in S : \A y \in S : y <= x

Ceil(a, b) == (a + b - 1) \div b

\* Array.prototype.slice(from, to) with 0-based, end-exclusive indices
Slice(s, from, to) ==
    LET hi == IF to > Len(s) THEN Len(s) ELSE to
    IN  IF from >= hi THEN <<>> ELSE [i \in 1..(hi - from) |-> s[from + i]]

RECURSIVE Insert(_, _)
Insert(x, s) ==
    IF s = <<>> THEN <<x>>
    ELSE IF x <= Head(s) THEN <<x>> \o s
    ELSE <<Head(s)>> \o Insert(x, Tail(s))

\* Array.prototype.sort() on equal-length digit strings: ascending order
RECURSIVE Sort(_)
Sort(s) == IF s = <<>> THEN <<>> ELSE Insert(Head(s), Sort(Tail(s)))

\* a JS Map as a function; Map.prototype.set of every entry of m into base
EmptyMap == <<>>

MapMerge(base, m) ==
    [k \in (DOMAIN base) \cup (DOMAIN m) |-> IF k \in DOMAIN m THEN m[k] ELSE base[k]]

\* ------------------------------------------------------------- HybridCache
\* JS values that pass through the cache: [shape, data].  The elements of a
\* Map or a Set are such values themselves.
StringValue(t) == [shape |-> "string", data |-> t]

NumberValue(n) == [shape |-> "number", data |-> n]

BooleanValue(b) == [shape |-> "boolean", data |-> b]

DateValue(ms) == [shape |-> "Date", data |-> ms]

MapValue(m) == [shape |-> "Map", data |-> m]

SetValue(S) == [shape |-> "Set", data |-> S]

BufferValue(bytes) == [shape |-> "Buffer", data |-> bytes]

\* a plain record or array
JsonValue(d) == [shape |-> "json", data |-> d]

NullValue == [shape |-> "null", data |-> <<>>]

UndefinedValue == [shape |-> "undefined", data |-> <<>>]

Miss == [shape |-> "miss", data |-> <<>>]

\* Date.prototype.toISOString and the Date constructor reading it back
toISOString(ms) == <<"iso", ms>>

ParseISO(t) == t[2]

\* Buffer.prototype.toString('base64') and Buffer.from(text, 'base64')
ToBase64(bytes) == <<"base64">> \o bytes

FromBase64(t) == Tail(t)

\* what JSON.stringify followed by JSON.parse leaves of a value nested in the
\* payload: a Date becomes its ISO text, undefined in an array becomes null, a
\* Map or a Set becomes the empty object, a Buffer its toJSON() record
JsonElement(v) ==
    IF v.shape = "Date" THEN StringValue(toISOString(v.data))
    ELSE IF v.shape = "undefined" THEN NullValue
    ELSE IF v.shape \in {"Map", "Set"} THEN JsonValue(<<"{}">>)
    ELSE IF v.shape = "Buffer" THEN JsonValue(<<"Buffer", v.data>>)
    ELSE v

\* Array.from(map.entries()) as JSON text holds it
MapEntries(m) == {<<k, JsonElement(m[k])>> : k \in DOMAIN m}

MapFromEntries(E) == [k \in {e[1] : e \in E} |-> (CHOOSE e \in E : e[1] = k)[2]]

\* Array.from(set.values()) as JSON text holds it
SetElements(S) == {JsonElement(e) : e \in S}

\* the tagged payload as JSON.stringify writes it
serializeValue(value) ==
    IF value.shape = "null" THEN [type |-> "null", value |-> <<>>]
    ELSE IF value.shape = "undefined" THEN [type |-> "undefined", value |-> <<>>]
    ELSE IF value.shape = "string" THEN [type |-> "string", value |-> value.data]
    ELSE IF value.shape = "number" THEN [type |-> "number", value |-> value.data]
    ELSE IF value.shape = "boolean" THEN [type |-> "boolean", value |-> value.data]
    ELSE IF value.shape = "Date" THEN [type |-> "date", value |-> toISOString(value.data)]
    ELSE IF value.shape = "Map" THEN [type |-> "map", value |-> MapEntries(value.data)]
    ELSE IF value.shape = "Set" THEN [type |-> "set", value |-> SetElements(value.data)]
    ELSE IF value.shape = "Buffer" THEN [type |-> "buffer", value |-> ToBase64(value.data)]
    ELSE [type |-> "json", value |-> value.data]

UNDEFINED_SENTINEL == [shape |-> "sentinel", data |-> <<>>]

\* variant: no look at the type tag, the payload's value is handed out
deserializeValue_Untagged(raw) == [shape |-> "json", data |-> raw.value]

\* JSON.parse and the switch on payload.type; an unknown type throws inside
\* the try and gives null
deserializeValue(raw) ==
    IF raw.type = "null" THEN NullValue
    ELSE IF raw.type = "undefined" THEN UNDEFINED_SENTINEL
    ELSE IF raw.type = "string" THEN StringValue(raw.value)
    ELSE IF raw.type = "number" THEN NumberValue(raw.value)
    ELSE IF raw.type = "boolean" THEN BooleanValue(raw.value)
    ELSE IF raw.type = "date" THEN DateValue(ParseISO(raw.value))
    ELSE IF raw.type = "map" THEN MapValue(MapFromEntries(raw.value))
    ELSE IF raw.type = "set" THEN SetValue(raw.value)
    ELSE IF raw.type = "buffer" THEN BufferValue(FromBase64(raw.value))
    ELSE IF raw.type = "json" THEN JsonValue(raw.value)
    ELSE NullValue

unwrapDeserialized(value) ==
    IF value.shape = "sentinel" THEN UndefinedValue ELSE value

\* variant: a stored null is told apart from a missing key
IsNull_MissOnly(v) == v.shape = "miss"

\* what get() hands to its caller: null stands for a miss
IsNull(v) == v.shape \in {"null", "miss"}

\* variant: the fallback map never lets an entry run out
Expired_Never(item) == FALSE

\* variant: the fallback map takes every entry for run out
Expired_Always(item) == TRUE

Expired(item) == now > item.expires

\* the fallback branch of get(): lazy eviction on read
MemoryGet(key) ==
    IF key \notin DOMAIN memoryCache \/ Expired(memoryCache[key])
    THEN [val |-> Miss,
          mem |-> [k \in (DOMAIN memoryCache) \ {key} |-> memoryCache[k]],
          via |-> "memory", threw |-> FALSE]
    ELSE [val |-> unwrapDeserialized(deserializeValue(memoryCache[key].value)),
          mem |-> memoryCache, via |-> "memory", threw |-> FALSE]

\* the primary branch of get(): Redis drops a key once its TTL has run out
RedisGet(key) ==
    IF key \notin DOMAIN redisStore \/ now >= redisStore[key].expires
    THEN [val |-> Miss, mem |-> memoryCache, via |-> "redis", threw |-> FALSE]
    ELSE [val |-> unwrapDeserialized(deserializeValue(redisStore[key].value)),
          mem |-> memoryCache, via |-> "redis", threw |-> FALSE]

\* variant: no catch around the Redis read, so its error reaches the caller
OnRedisGetError_Rethrow(key) ==
    [val |-> Miss, mem |-> memoryCache, via |-> "redis", threw |-> TRUE]

\* the catch block of get(): log, then fall through to the fallback map
OnRedisGetError(key) == [MemoryGet(key) EXCEPT !.via = "fallback"]

\* the ways a get or a set can go in the current state: with Redis available
\* the command answers ("redis") or throws ("fallback"); without it the
\* fallback map serves ("memory")
StorePaths ==
    IF isRedisAvailable /\ redisConfigured THEN {"redis", "fallback"} ELSE {"memory"}

\* get(key) along one of those ways
get(key, path) ==
    IF path = "redis" THEN RedisGet(key)
    ELSE IF path = "fallback" THEN OnRedisGetError(key)
    ELSE MemoryGet(key)

\* variant: the sweep removes nothing
cleanupMemoryCache_KeepAll(mem) == mem

cleanupMemoryCache(mem) ==
    [k \in {x \in DOMAIN mem : ~(now > mem[x].expires)} |-> mem[k]]

\* variant: a write that is not atomic: over an existing entry it replaces only
\* the first part of a two-part value
MemorySet_Torn(key, value, ttlSeconds) ==
    LET torn == key \in DOMAIN memoryCache
                /\ value.shape = "json"
                /\ memoryCache[key].value.type = "json"
                /\ Len(value.data) = 2
                /\ Len(memoryCache[key].value.value) = 2
        item == [value |-> IF torn
                           THEN [type |-> "json",
                                 value |-> <<value.data[1], memoryCache[key].value.value[2]>>]
                           ELSE serializeValue(value),
                 expires |-> now + ttlSeconds * 1000]
    IN  [redis |-> redisStore,
         mem |-> [k \in (DOMAIN memoryCache) \cup {key} |->
                    IF k = key THEN item ELSE memoryCache[k]],
         via |-> "memory", threw |-> FALSE]

MemorySet(key, value, ttlSeconds) ==
    LET item == [value |-> serializeValue(value), expires |-> now + ttlSeconds * 1000]
        mem == [k \in (DOMAIN memoryCache) \cup {key} |->
                   IF k = key THEN item ELSE memoryCache[k]]
    IN  [redis |-> redisStore,
         mem |-> IF Cardinality(DOMAIN mem) > cleanupThreshold
                 THEN cleanupMemoryCache(mem) ELSE mem,
         via |-> "memory", threw |-> FALSE]

RedisSet(key, value, ttlSeconds) ==
    LET item == [value |-> serializeValue(value), expires |-> now + ttlSeconds * 1000]
    IN  [redis |-> [k \in (DOMAIN redisStore) \cup {key} |->
                       IF k = key THEN item ELSE redisStore[k]],
         mem |-> memoryCache, via |-> "redis", threw |-> FALSE]

\* variant: no catch around setex, so its error reaches the caller
OnRedisSetError_Rethrow(key, value, ttlSeconds) ==
    [redis |-> redisStore, mem |-> memoryCache, via |-> "redis", threw |-> TRUE]

\* the catch block of set(): log, then fall through to the fallback map
OnRedisSetError(key, value, ttlSeconds) ==
    [MemorySet(key, value, ttlSeconds) EXCEPT !.via = "fallback"]

\* set(key, value, ttl) along one of those ways (the two stores afterwards)
set(key, value, ttlSeconds, path) ==
    IF path = "redis" THEN RedisSet(key, value, ttlSeconds)
    ELSE IF path = "fallback" THEN OnRedisSetError(key, value, ttlSeconds)
    ELSE MemorySet(key, value, ttlSeconds)

\* the 'connect' and 'error' events of the Redis client
RedisConnect ==
    /\ redisConfigured
    /\ ~isRedisAvailable
    /\ isRedisAvailable' = TRUE
    /\ UNCHANGED <<ENABLE_CACHE, redisConfigured, redisStore, memoryCache, now, httpCalls>>
    /\ UNCHANGED callVars
    /\ UNCHANGED streamVars
    /\ UNCHANGED formatVars

RedisError ==
    /\ redisConfigured
    /\ isRedisAvailable
    /\ isRedisAvailable' = FALSE
    /\ UNCHANGED <<ENABLE_CACHE, redisConfigured, redisStore, memoryCache, now, httpCalls>>
    /\ UNCHANGED callVars
    /\ UNCHANGED streamVars
    /\ UNCHANGED formatVars

\* ------------------------------------------------ upstream REST / GTFS APIs
BatchOps == {"profiles", "predictions"}

SingleOps == {"gtfsVehicles", "gtfsTrips", "actVehicles"}

\* the records a feed or vehicle response can carry: none, or one
Payloads == {<<>>, <<1>>}

\* the tm field of a system-time answer: absent, or a string over the digits
\* 1, 2 and a character x that is no digit
TmChars == {"1", "2", "x"}

TmStrings == UNION {[1..n -> TmChars] : n \in 0..MaxTmLen}

TmFields ==
    {[has |-> FALSE, tm |-> <<>>]} \cup {[has |-> TRUE, tm |-> t] : t \in TmStrings}

IsDigit(c) == c \in {"0", "1", "2", "3", "4", "5", "6", "7", "8", "9"}

DigitValue(c) ==
    CASE c = "0" -> 0 [] c = "1" -> 1 [] c = "2" -> 2 [] c = "3" -> 3 [] c = "4" -> 4
      [] c = "5" -> 5 [] c = "6" -> 6 [] c = "7" -> 7 [] c = "8" -> 8 [] c = "9" -> 9

\* the longest prefix of decimal digits
RECURSIVE DigitPrefix(_)
DigitPrefix(t) ==
    IF t = <<>> \/ ~IsDigit(Head(t)) THEN <<>>
    ELSE <<Head(t)>> \o DigitPrefix(Tail(t))

RECURSIVE Decimal(_)
Decimal(t) ==
    IF t = <<>> THEN 0
    ELSE 10 * Decimal(SubSeq(t, 1, Len(t) - 1)) + DigitValue(t[Len(t)])

\* Number.parseInt(t, 10): an optional sign, then the value of the leading
\* digits; NaN without any digit
parseInt(t) ==
    IF t # <<>> /\ Head(t) = "-"
    THEN [nan |-> DigitPrefix(Tail(t)) = <<>>, n |-> 0 - Decimal(DigitPrefix(Tail(t)))]
    ELSE [nan |-> DigitPrefix(t) = <<>>, n |-> Decimal(DigitPrefix(t))]

\* ------------------------------------------------------ timestamp resolver
\* Instants are counted in minutes since 2025-01-01T00:00Z, the resolution of
\* the `YYYYMMDD HH:MM` format; the calendar is that of 2025.
DaysInMonth == <<31, 28, 31, 30, 31, 30, 31, 31, 30, 31, 30, 31>>

RECURSIVE DaysBeforeMonth(_)
DaysBeforeMonth(month0) ==
    IF month0 = 0 THEN 0 ELSE DaysBeforeMonth(month0 - 1) + DaysInMonth[month0]

\* Date.UTC(year, monthIndex, day, hour, minute); a day beyond the month's end
\* rolls over into the next month
DateUTC(year, month0, day, hour, minute) ==
    (((year - 2025) * 365 + DaysBeforeMonth(month0) + day - 1) * 24 + hour) * 60 + minute

\* America/Los_Angeles in 2025: PDT from 2025-03-09T10:00Z to 2025-11-02T09:00Z
SpringForward == DateUTC(2025, 2, 9, 10, 0)

FallBack == DateUTC(2025, 10, 2, 9, 0)

\* the offset Intl.DateTimeFormat reports for the instant, in minutes
getTimezoneOffsetMinutes(instant) ==
    IF instant >= SpringForward /\ instant < FallBack THEN 0 - 420 ELSE 0 - 480

\* String.prototype.split on one separator character
RECURSIVE SplitOn(_, _)
SplitOn(t, sep) ==
    IF \A i \in DOMAIN t : t[i] # sep THEN <<t>>
    ELSE LET i == CHOOSE j \in DOMAIN t : t[j] = sep /\ \A k \in 1..(j - 1) : t[k] # sep
         IN  <<SubSeq(t, 1, i - 1)>> \o SplitOn(SubSeq(t, i + 1, Len(t)), sep)

\* const [datePart, timePart] = value?.split(' ') ?? []; an absent part is <<>>,
\* which the code's `!part` treats like the empty string
Parts(value) ==
    IF ~value.present THEN <<<<>>, <<>>>>
    ELSE LET p == SplitOn(value.text, " ")
         IN  <<p[1], IF Len(p) >= 2 THEN p[2] ELSE <<>>>>

\* const [hourPart = '00', minutePart = '00'] = timePart.split(':')
TimeParts(timePart) ==
    LET p == SplitOn(timePart, ":")
    IN  <<p[1], IF Len(p) >= 2 THEN p[2] ELSE <<"0", "0">>>>

\* the resolver that works in America/Los_Angeles: range checks on parseInt's
\* results, then Date.UTC corrected twice by the zone's offset
parseActRealtimeTimestampInZone(value, clock) ==
    LET datePart == Parts(value)[1]
        timePart == Parts(value)[2]
    IN  IF datePart = <<>> \/ timePart = <<>> \/ Len(datePart) # 8 THEN clock
        ELSE LET year == parseInt(Slice(datePart, 0, 4))
                 month == parseInt(Slice(datePart, 4, 6))
                 day == parseInt(Slice(datePart, 6, 8))
                 hour == parseInt(TimeParts(timePart)[1])
                 minute == parseInt(TimeParts(timePart)[2])
             IN  IF \/ year.nan \/ month.nan \/ day.nan \/ hour.nan \/ minute.nan
                    \/ month.n < 1 \/ month.n > 12
                    \/ day.n < 1 \/ day.n > 31
                    \/ hour.n < 0 \/ hour.n > 23
                    \/ minute.n < 0 \/ minute.n > 59
                 THEN clock
                 ELSE LET localTimestamp == DateUTC(year.n, month.n - 1, day.n, hour.n, minute.n)
                          first == localTimestamp - getTimezoneOffsetMinutes(localTimestamp)
                          second == localTimestamp - getTimezoneOffsetMinutes(first)
                      IN  IF first = localTimestamp THEN localTimestamp ELSE second

\* exactly n decimal digits
IsDigits(t, n) == Len(t) = n /\ \A i \in DOMAIN t : IsDigit(t[i])

\* the zones the server process may run in
ProcessZones == {"America/Los_Angeles", "UTC"}

\* the instant of a wall-clock time in the process's zone, as the Date
\* constructor finds it: of two instants with that wall-clock time the earlier,
\* and in the skipped hour the one by the offset before the transition
LocalToInstant(local, zone) ==
    IF zone = "UTC" THEN local
    ELSE IF getTimezoneOffsetMinutes(local + 420) = 0 - 420 THEN local + 420
    ELSE local + 480

\* the resolver that hands `${year}-${month}-${day}T${hour}:${minute}:00` to
\* the Date constructor: a date-time without offset is local time; a text that
\* is no ISO date-time (24:00 is one) gives an invalid Date and so the clock
parseActRealtimeTimestamp(value, clock, zone) ==
    LET datePart == Parts(value)[1]
        timePart == Parts(value)[2]
    IN  IF datePart = <<>> \/ timePart = <<>> \/ Len(datePart) # 8 THEN clock
        ELSE LET year == Slice(datePart, 0, 4)
                 month == Slice(datePart, 4, 6)
                 day == Slice(datePart, 6, 8)
                 hour == TimeParts(timePart)[1]
                 minute == TimeParts(timePart)[2]
                 iso == /\ IsDigits(year, 4) /\ IsDigits(month, 2) /\ IsDigits(day, 2)
                        /\ IsDigits(hour, 2) /\ IsDigits(minute, 2)
                        /\ Decimal(month) \in 1..12
                        /\ Decimal(day) \in 1..31
                        /\ Decimal(hour) \in 0..24
                        /\ Decimal(minute) \in 0..59
                        /\ Decimal(hour) = 24 => Decimal(minute) = 0
             IN  IF ~iso THEN clock
                 ELSE LocalToInstant(DateUTC(Decimal(year), Decimal(month) - 1, Decimal(day),
                                             Decimal(hour), Decimal(minute)), zone)

\* what a Map or a Set handed to the cache can hold
Elements ==
    {StringValue(<<"a">>), NumberValue(1), DateValue(1), UndefinedValue,
     BufferValue(<<7>>), SetValue({})}

\* the values a producer passed to getCachedOrFetch can resolve with
CacheValues ==
    {NullValue, UndefinedValue,
     StringValue(<<>>), StringValue(<<"a">>),
     NumberValue(0), NumberValue(1),
     BooleanValue(FALSE), BooleanValue(TRUE),
     DateValue(1),
     BufferValue(<<>>), BufferValue(<<7>>),
     JsonValue(<<>>), JsonValue(<<1>>),
     MapValue(EmptyMap), SetValue({})}
    \cup {MapValue([k \in {"k"} |-> e]) : e \in Elements}
    \cup {SetValue({e}) : e \in Elements}

\* the two resolvers of the repository: utils/datetime.ts, which the formatters
\* import, and the one working in America/Los_Angeles
Resolvers == {"datetime", "inZone"}

ResolveWith(impl, in) ==
    IF impl = "inZone" THEN parseActRealtimeTimestampInZone(in.value, in.clock)
    ELSE parseActRealtimeTimestamp(in.value, in.clock, in.zone)

\* --------------------------------------------------------------- formatters
\* a value that may be missing (null or undefined)
Absent == [kind |-> "absent", v |-> 0, text |-> <<>>]

Num(n) == [kind |-> "number", v |-> n, text |-> <<>>]

NaN == [kind |-> "nan", v |-> 0, text |-> <<>>]

Str(t) == [kind |-> "string", v |-> 0, text |-> t]

\* String.prototype.trim
RECURSIVE TrimStart(_)
TrimStart(t) == IF t # <<>> /\ Head(t) = " " THEN TrimStart(Tail(t)) ELSE t

RECURSIVE TrimEnd(_)
TrimEnd(t) ==
    IF t # <<>> /\ t[Len(t)] = " " THEN TrimEnd(SubSeq(t, 1, Len(t) - 1)) ELSE t

Trim(t) == TrimEnd(TrimStart(t))

\* variant: a value that is not a finite number is replaced by 0
parseFiniteNumber_Placeholder(value) == IF value.kind = "number" THEN value ELSE Num(0)

\* parseFiniteNumber: null for a missing value, a blank string, or anything
\* Number() does not turn into a finite number
parseFiniteNumber(value) ==
    IF value.kind = "absent" THEN Absent
    ELSE IF value.kind = "string"
    THEN (IF Trim(value.text) = <<>> THEN Absent
          ELSE IF \A i \in DOMAIN Trim(value.text) : IsDigit(Trim(value.text)[i])
          THEN Num(Decimal(Trim(value.text)))
          ELSE Absent)
    ELSE IF value.kind = "number" THEN value
    ELSE Absent

\* a.localeCompare(b) < 0 on strings of digits
RECURSIVE LocaleLess(_, _)
LocaleLess(a, b) ==
    IF b = <<>> THEN FALSE
    ELSE IF a = <<>> THEN TRUE
    ELSE IF Head(a) # Head(b) THEN DigitValue(Head(a)) < DigitValue(Head(b))
    ELSE LocaleLess(Tail(a), Tail(b))

\* Array.prototype.sort with (a, b) => a.vehicleId.localeCompare(b.vehicleId);
\* the sort is stable
RECURSIVE InsertByVehicleId(_, _)
InsertByVehicleId(s, x) ==
    IF s = <<>> \/ ~LocaleLess(x.vehicleId, s[Len(s)].vehicleId) THEN Append(s, x)
    ELSE Append(InsertByVehicleId(SubSeq(s, 1, Len(s) - 1), x), s[Len(s)])

RECURSIVE SortByVehicleId(_)
SortByVehicleId(s) ==
    IF s = <<>> THEN <<>>
    ELSE InsertByVehicleId(SortByVehicleId(SubSeq(s, 1, Len(s) - 1)), s[Len(s)])

\* variant: the list is returned as collected
SortByArrivalTime_Unsorted(s) == s

\* Array.prototype.sort with (a, b) => a.arrivalTime.getTime() - b.arrivalTime.getTime()
RECURSIVE InsertByArrivalTime(_, _)
InsertByArrivalTime(s, x) ==
    IF s = <<>> \/ s[Len(s)].arrivalTime <= x.arrivalTime THEN Append(s, x)
    ELSE Append(InsertByArrivalTime(SubSeq(s, 1, Len(s) - 1), x), s[Len(s)])

RECURSIVE SortByArrivalTime(_)
SortByArrivalTime(s) ==
    IF s = <<>> THEN <<>>
    ELSE InsertByArrivalTime(SortByArrivalTime(SubSeq(s, 1, Len(s) - 1)), s[Len(s)])

RECURSIVE Flatten(_)
Flatten(ss) == IF ss = <<>> THEN <<>> ELSE Head(ss) \o Flatten(Tail(ss))

\* vehicle.vehicle?.id ?? entity.id ?? '': the entity's id stands in only for
\* a descriptor id that is null or undefined
GtfsVehicleId(entity) ==
    IF entity.descriptorId.kind # "absent" THEN entity.descriptorId.text
    ELSE IF entity.id.kind # "absent" THEN entity.id.text
    ELSE <<>>

\* the BusPosition of one feed entity, or nothing; `of` names the record the
\* position was made from. Heading, speed, timestamp, trip and stop sequence
\* decide nothing about a record's emission or place and are left out.
GtfsPosition(entity) ==
    LET latitude == parseFiniteNumber(entity.latitude)
        longitude == parseFiniteNumber(entity.longitude)
        vehicleId == GtfsVehicleId(entity)
    IN  IF ~entity.hasVehicle THEN <<>>
        ELSE IF \/ entity.routeId.kind = "absent" \/ entity.routeId.text = <<>>
                \/ latitude.kind = "absent" \/ longitude.kind = "absent"
                \/ vehicleId = <<>>
        THEN <<>>
        ELSE <<[vehicleId |-> vehicleId, routeId |-> entity.routeId.text,
                latitude |-> latitude.v, longitude |-> longitude.v, of |-> entity.id.text]>>

createBusPositionsFromGtfsFeed(entities) ==
    SortByVehicleId(Flatten([i \in DOMAIN entities |-> GtfsPosition(entities[i])]))

\* the BusPosition of one raw ACT RealTime record, or nothing (null)
ActPosition(rawPosition) ==
    LET vehicleId == IF rawPosition.vid.kind = "absent" THEN <<>> ELSE Trim(rawPosition.vid.text)
        routeId == IF rawPosition.rt.kind = "absent" THEN <<>> ELSE Trim(rawPosition.rt.text)
        latitude == parseFiniteNumber(rawPosition.lat)
        longitude == parseFiniteNumber(rawPosition.lon)
    IN  IF \/ vehicleId = <<>> \/ routeId = <<>>
           \/ latitude.kind = "absent" \/ longitude.kind = "absent"
        THEN <<>>
        ELSE <<[vehicleId |-> vehicleId, routeId |-> routeId,
                latitude |-> latitude.v, longitude |-> longitude.v, of |-> rawPosition.no]>>

createBusPositionsFromActRealtime(rawPositions) ==
    SortByVehicleId(Flatten([i \in DOMAIN rawPositions |-> ActPosition(rawPositions[i])]))

\* parseMinutesAway: 'Due' and anything parseInt gives NaN for count as 0
parseMinutesAway(value) ==
    IF value = <<"D", "u", "e">> THEN 0
    ELSE IF parseInt(value).nan THEN 0
    ELSE parseInt(value).n

\* rtdir.toLowerCase() includes 'amtrak' or 'away'; the direction texts are
\* taken whole
isOutboundDirection(direction) == direction \in {"To Amtrak", "Away from campus"}

\* variant: the countdown is passed on as it is
formatMinutesAway_Identity(minutes) == minutes

\* Math.max(0, minutes)
formatMinutesAway(minutes) == IF minutes > 0 THEN minutes ELSE 0

\* one raw ACT RealTime prediction as a BusStopPrediction; resolve is the
\* timestamp resolver the build links
ActPrediction(prediction, resolver, clock, zone) ==
    LET arrivalTime == ResolveWith(resolver, [value |-> prediction.prdtm, clock |-> clock,
                                              zone |-> zone])
    IN  [vehicleId |-> prediction.vid, tripId |-> prediction.tatripid,
         arrivalTime |-> arrivalTime, departureTime |-> arrivalTime,
         minutesAway |-> formatMinutesAway(parseMinutesAway(prediction.prdctdn)),
         isOutbound |-> isOutboundDirection(prediction.rtdir)]

\* variant: no filter on the direction
createBusStopPredictionsFromActRealtime_Unfiltered(rawPredictions, isOutbound, resolver, clock, zone) ==
    SortByArrivalTime([i \in DOMAIN rawPredictions |->
                          ActPrediction(rawPredictions[i], resolver, clock, zone)])

createBusStopPredictionsFromActRealtime(rawPredictions, isOutbound, resolver, clock, zone) ==
    LET kept == SelectSeq(rawPredictions,
                          LAMBDA r : isOutboundDirection(r.rtdir) = isOutbound)
    IN  SortByArrivalTime([i \in DOMAIN kept |-> ActPrediction(kept[i], resolver, clock, zone)])

\* Math.round(x / 60): the nearest integer, a half rounds up
RoundDiv60(x) == (2 * x + 60) \div 120

\* a || b on times: 0 and a missing time are falsy
OrTime(a, b) == IF a.kind = "number" /\ a.v # 0 THEN a ELSE b

\* the predictions of one trip-update entity; times are in seconds, as in the
\* feed, and so is the clock
GtfsPredictions(entity, isOutbound, clock) ==
    LET tripIsOutbound == (entity.directionId = 1)
        vehicleId == IF entity.descriptorId.kind # "absent" /\ entity.descriptorId.text # <<>>
                     THEN entity.descriptorId.text
                     ELSE IF entity.id.kind # "absent" /\ entity.id.text # <<>>
                     THEN entity.id.text
                     ELSE <<"u", "n", "k", "n", "o", "w", "n">>
        kept == SelectSeq(entity.stopTimeUpdate,
                          LAMBDA u : /\ u.stopId.kind # "absent" /\ u.stopId.text # <<>>
                                     /\ OrTime(u.arrival, u.departure).kind = "number"
                                     /\ OrTime(u.arrival, u.departure).v # 0
                                     /\ tripIsOutbound = isOutbound)
    IN  [i \in DOMAIN kept |->
            [vehicleId |-> vehicleId, tripId |-> entity.tripId,
             arrivalTime |-> OrTime(kept[i].arrival, kept[i].departure).v,
             departureTime |-> OrTime(kept[i].departure, kept[i].arrival).v,
             minutesAway |-> formatMinutesAway(
                 RoundDiv60(OrTime(kept[i].arrival, kept[i].departure).v - clock)),
             isOutbound |-> tripIsOutbound]]

createBusStopPredictionsFromGtfsFeed(entities, isOutbound, clock) ==
    LET withTrip == SelectSeq(entities,
                              LAMBDA e : /\ e.hasTripUpdate
                                         /\ e.routeId.kind # "absent" /\ e.routeId.text # <<>>)
    IN  SortByArrivalTime(Flatten([i \in DOMAIN withTrip |->
                                      GtfsPredictions(withTrip[i], isOutbound, clock)]))

\* which of the requested stop codes the upstream answer has records for
FoundChoices(chunk) ==
    {Range(chunk), Range(chunk) \ {Max(Range(chunk))}, {}}

\* an HTTP answer: "ok" (2xx with a response object), "empty" (2xx whose JSON
\* body is null), "notfound" (404), "error" (any other status, a transport
\* failure or an unparseable body)
Responses(opx, chunk) ==
    IF opx \in BatchOps
    THEN {[status |-> "error", found |-> {}, payload |-> <<>>],
          [status |-> "notfound", found |-> {}, payload |-> <<>>],
          [status |-> "empty", found |-> {}, payload |-> <<>>]}
         \cup {[status |-> "ok", found |-> F, payload |-> <<>>] : F \in FoundChoices(chunk)}
    ELSE IF opx = "time"
    THEN {[status |-> "error", found |-> {}, payload |-> <<>>],
          [status |-> "notfound", found |-> {}, payload |-> <<>>]}
         \cup {[status |-> "ok", found |-> {}, payload |-> p] : p \in TmFields}
    ELSE IF opx = "producer"
    THEN {[status |-> "error", found |-> {}, payload |-> <<>>]}
         \cup {[status |-> "ok", found |-> {}, payload |-> v] : v \in CacheValues}
    ELSE IF opx = "callers"
    THEN {[status |-> "error", found |-> {}, payload |-> <<>>],
          [status |-> "ok", found |-> {}, payload |-> <<>>]}
    ELSE {[status |-> "error", found |-> {}, payload |-> <<>>],
          [status |-> "notfound", found |-> {}, payload |-> <<>>]}
         \cup {[status |-> "ok", found |-> {}, payload |-> p] : p \in Payloads}

NoResponse == [status |-> "none", found |-> {}, payload |-> <<>>]

Threw == [threw |-> TRUE, value |-> Miss]

Returned(v) == [threw |-> FALSE, value |-> v]

\* fetchBusStopProfilesRaw after the HTTP answer; req tags the answer's data
\* with the request that fetched it (call number, chunk index)
fetchBusStopProfilesRaw(chunk, resp, req) ==
    IF resp.status \in {"notfound", "empty"} THEN Returned(MapValue(EmptyMap))
    ELSE IF resp.status = "error" THEN Threw
    ELSE Returned(MapValue([c \in Range(chunk) \cap resp.found |->
                               JsonValue([stpid |-> c, req |-> req])]))

\* variant: only the stop codes that have predictions are keyed
fetchBusStopPredictionsRaw_OnlyPredicted(chunk, resp, req) ==
    IF resp.status \in {"notfound", "empty"} THEN Returned(MapValue(EmptyMap))
    ELSE IF resp.status = "error" THEN Threw
    ELSE Returned(MapValue([c \in Range(chunk) \cap resp.found |->
                               JsonValue(<<[stpid |-> c, req |-> req]>>)]))

\* fetchBusStopPredictionsRaw after the HTTP answer
fetchBusStopPredictionsRaw(chunk, resp, req) ==
    IF resp.status \in {"notfound", "empty"} THEN Returned(MapValue(EmptyMap))
    ELSE IF resp.status = "error" THEN Threw
    ELSE Returned(MapValue([c \in Range(chunk) |->
                               IF c \in resp.found
                               THEN JsonValue(<<[stpid |-> c, req |-> req]>>)
                               ELSE JsonValue(<<>>)]))

\* fetchGTFSFeed: every non-2xx status is an error
fetchGTFSFeed(resp) ==
    IF resp.status # "ok" THEN Threw ELSE Returned(JsonValue(resp.payload))

\* variant: 404 is an error like every other non-2xx status
fetchBusPositionsRaw_404Throws(resp) ==
    IF resp.status # "ok" THEN Threw ELSE Returned(JsonValue(resp.payload))

\* fetchBusPositionsRaw: 404 is an empty list
fetchBusPositionsRaw(resp) ==
    IF resp.status = "notfound" THEN Returned(JsonValue(<<>>))
    ELSE IF resp.status = "error" THEN Threw
    ELSE Returned(JsonValue(resp.payload))

\* fetchSystemTime: any non-2xx status, a missing or empty tm field and a tm
\* field that parseInt makes NaN of are errors
fetchSystemTime(resp) ==
    IF resp.status # "ok" THEN Threw
    ELSE IF ~resp.payload.has \/ resp.payload.tm = <<>> THEN Threw
    ELSE IF parseInt(resp.payload.tm).nan THEN Threw
    ELSE Returned(DateValue(parseInt(resp.payload.tm).n))

\* the fetcher argument of getCachedOrFetch: rejects, or resolves with a value
producer(resp) ==
    IF resp.status = "error" THEN Threw ELSE Returned(resp.payload)

\* the fetcher of one of several concurrent callers: its value has two parts,
\* each naming the key it was produced for and the invocation (call number,
\* caller) that produced it
callerProducer(chunk, resp, req) ==
    IF resp.status = "error" THEN Threw
    ELSE Returned(JsonValue(<<[key |-> chunk, writer |-> req],
                              [key |-> chunk, writer |-> req]>>))

Fetcher(opx, chunk, resp, req) ==
    IF opx = "profiles" THEN fetchBusStopProfilesRaw(chunk, resp, req)
    ELSE IF opx = "predictions" THEN fetchBusStopPredictionsRaw(chunk, resp, req)
    ELSE IF opx = "actVehicles" THEN fetchBusPositionsRaw(resp)
    ELSE IF opx = "time" THEN fetchSystemTime(resp)
    ELSE IF opx = "producer" THEN producer(resp)
    ELSE IF opx = "callers" THEN callerProducer(chunk, resp, req)
    ELSE fetchGTFSFeed(resp)

\* variant: single flight, a caller that misses while another caller's fetch
\* for the same key is in flight does not invoke its own producer
PreFlight_SingleFlight(opx, chunk) ==
    IF \E j \in DOMAIN tasks : tasks[j].pc = "http" /\ tasks[j].chunk = chunk
    THEN "empty"
    ELSE IF opx \in BatchOps /\ Len(chunk) = 0 THEN "empty"
    ELSE IF opx \in BatchOps /\ Len(chunk) > 10 THEN "throw"
    ELSE "request"

\* variant: no limit check
PreFlight_NoLimit(opx, chunk) ==
    IF opx \in BatchOps /\ Len(chunk) = 0 THEN "empty" ELSE "request"

\* what the raw lookups do before any network call
PreFlight(opx, chunk) ==
    IF opx \in BatchOps /\ Len(chunk) = 0 THEN "empty"
    ELSE IF opx \in BatchOps /\ Len(chunk) > 10 THEN "throw"
    ELSE "request"

CacheKey(opx, chunk) ==
    IF opx = "profiles" THEN <<"bus-stop-profiles", chunk>>
    ELSE IF opx = "predictions" THEN <<"bus-stop-predictions", chunk>>
    ELSE IF opx = "gtfsVehicles" THEN <<"bus:all", <<>>>>
    ELSE IF opx = "gtfsTrips" THEN <<"trips:all", <<>>>>
    ELSE IF opx = "time" THEN <<"time", <<>>>>
    ELSE IF opx \in {"producer", "callers"} THEN <<"key", chunk>>
    ELSE <<"vehicle-positions", <<>>>>

\* variant: entries stored for twice the requested time
Ttl_Doubled(opx) == 2 * DEFAULT_TTL

Ttl(opx) ==
    IF opx = "profiles" THEN CACHE_TTL_BUS_STOP_PROFILES
    ELSE IF opx \in {"producer", "callers"} THEN DEFAULT_TTL
    ELSE IF opx \in {"predictions", "gtfsTrips"} THEN CACHE_TTL_PREDICTIONS
    ELSE CACHE_TTL_VEHICLE_POSITIONS

\* ---------------------------------------------------------- BatchCoordinator
\* variant: Math.floor instead of Math.ceil, which drops the last, short chunk
Chunks_Floor(codes) ==
    [index \in 1..(Len(codes) \div chunkSize) |->
        Slice(codes, (index - 1) * chunkSize, index * chunkSize)]

\* Array.from({length: ceil(n / chunkSize)}, (_, index) => slice(...))
Chunks(codes) ==
    [index \in 1..Ceil(Len(codes), chunkSize) |->
        Slice(codes, (index - 1) * chunkSize, index * chunkSize)]

\* the per-chunk (or single) getCachedOrFetch invocations of one call;
\* chunk.sort() sorts the slice in place before the key is built
TasksFor(opx, codes) ==
    IF opx \in BatchOps
    THEN [i \in DOMAIN Chunks(codes) |->
             [chunk |-> Sort(Chunks(codes)[i]),
              key |-> CacheKey(opx, Sort(Chunks(codes)[i])),
              pc |-> "get", status |-> "none", resp |-> NoResponse, fresh |-> Miss,
              getVia |-> "none", setVia |-> "none", startNo |-> 0]]
    ELSE <<[chunk |-> <<>>, key |-> CacheKey(opx, <<>>),
            pc |-> "get", status |-> "none", resp |-> NoResponse, fresh |-> Miss,
              getVia |-> "none", setVia |-> "none", startNo |-> 0]>>

\* variant: a failure of the fetcher is swallowed everywhere
OnTaskFailure_Swallow(opx) == "running"

\* variant: no try/catch around a chunk, so its failure rejects Promise.all
OnTaskFailure_Propagate(opx) == "threw"

\* a chunk's failure is caught and logged in the batching lookups; a single
\* getCachedOrFetch lets it propagate; a rejection reaches only the caller it
\* belongs to, the other concurrent callers go on
OnTaskFailure(opx) == IF opx \in BatchOps \/ opx = "callers" THEN "running" ELSE "threw"

\* profileMap.set / predictionsMap.set of every entry; a single lookup just
\* returns the value
Merge(opx, acc, value) ==
    IF opx \in BatchOps THEN MapValue(MapMerge(acc.data, value.data)) ELSE value

HasLiveEntry(key) ==
    \/ key \in DOMAIN memoryCache /\ ~Expired(memoryCache[key])
    \/ key \in DOMAIN redisStore /\ now < redisStore[key].expires

\* the synchronous prefix of fetchBusStopProfiles / fetchBusStopPredictions /
\* fetchVehiclePositions / fetchTripUpdates: build the chunks and dispatch them
StartCall(opx, codes) ==
    /\ op' = opx
    /\ stopCodes' = codes
    /\ tasks' = IF opx \in BatchOps /\ Len(codes) = 0 THEN <<>> ELSE TasksFor(opx, codes)
    /\ result' = IF opx \in BatchOps THEN MapValue(EmptyMap) ELSE Miss
    /\ requests' = <<>>
    /\ calls' = calls + 1
    /\ coldStart' = \A i \in DOMAIN TasksFor(opx, codes) : ~HasLiveEntry(TasksFor(opx, codes)[i].key)
    /\ callState' = IF opx \in BatchOps /\ Len(codes) = 0 THEN "returned" ELSE "running"

StreamRunning == pc \in {"priming", "polling"}

\* getCachedOrFetch consults the cache only with ENABLE_CACHE; the system time
\* is never cached
Cached(opx) == ENABLE_CACHE /\ opx # "time"

\* the fetcher is invoked: early return, contract violation, or HTTP request
\* (startNo: the place of the invocation among those of the call)
InvokeFetcher(i, via) ==
    LET t == tasks[i]
        pre == PreFlight(op, t.chunk)
    IN  /\ tasks' = [tasks EXCEPT ![i].pc =
                        IF pre = "request" THEN "http"
                        ELSE IF pre = "empty" THEN (IF Cached(op) THEN "set" ELSE "done")
                        ELSE "failed",
                      ![i].fresh = IF pre = "empty" THEN MapValue(EmptyMap) ELSE Miss,
                      ![i].status = IF pre = "request" THEN "none" ELSE pre,
                      ![i].getVia = via,
                      ![i].startNo = IF pre = "request" THEN Len(requests) + 1 ELSE 0]
        /\ requests' = IF pre = "request" THEN Append(requests, t.chunk) ELSE requests
        /\ httpCalls' = IF pre = "request" THEN httpCalls + 1 ELSE httpCalls
        /\ result' = IF pre = "empty" /\ ~Cached(op)
                     THEN Merge(op, result, MapValue(EmptyMap)) ELSE result
        /\ callState' = IF pre = "throw" THEN OnTaskFailure(op) ELSE callState

\* getCachedOrFetch up to and including the fetcher's request
TaskGet(i) ==
    /\ callState = "running"
    /\ i \in DOMAIN tasks
    /\ tasks[i].pc = "get"
    /\ IF Cached(op)
       THEN \E path \in StorePaths :
              LET g == get(tasks[i].key, path) IN
              /\ memoryCache' = g.mem
              /\ IF g.threw
                 THEN /\ tasks' = [tasks EXCEPT ![i].pc = "failed",
                                                ![i].status = "cache_error",
                                                ![i].getVia = g.via]
                      /\ callState' = OnTaskFailure(op)
                      /\ UNCHANGED <<requests, httpCalls, result>>
                 ELSE IF ~IsNull(g.val)
                 THEN /\ tasks' = [tasks EXCEPT ![i].pc = "done", ![i].status = "hit",
                                                ![i].fresh = g.val, ![i].getVia = g.via]
                      /\ result' = Merge(op, result, g.val)
                      /\ UNCHANGED <<requests, httpCalls, callState>>
                 ELSE InvokeFetcher(i, g.via)
       ELSE /\ InvokeFetcher(i, "none")
            /\ UNCHANGED memoryCache
    /\ UNCHANGED <<ENABLE_CACHE, redisConfigured, isRedisAvailable, redisStore, now>>
    /\ UNCHANGED <<stopCodes, op, calls, coldStart>>
    /\ UNCHANGED <<kind, source, pc, step, nextPending, cancelled, pulls, emitted, fetches, waits, transientSeen>>
    /\ UNCHANGED formatVars

\* the HTTP answer arrives and the raw lookup finishes
TaskResponse(i) ==
    /\ callState = "running"
    /\ i \in DOMAIN tasks
    /\ tasks[i].pc = "http"
    /\ \E resp \in Responses(op, tasks[i].chunk) :
         LET r == Fetcher(op, tasks[i].chunk, resp, <<calls, i>>)
         IN  /\ tasks' = [tasks EXCEPT
                             ![i].pc = IF r.threw THEN "failed"
                                       ELSE IF Cached(op) THEN "set" ELSE "done",
                             ![i].status = resp.status,
                             ![i].resp = resp,
                             ![i].fresh = r.value]
             /\ result' = IF ~r.threw /\ ~Cached(op) THEN Merge(op, result, r.value) ELSE result
             /\ callState' = IF r.threw THEN OnTaskFailure(op) ELSE callState
             /\ transientSeen' = (transientSeen \/ (StreamRunning /\ resp.status = "error"))
    /\ UNCHANGED <<ENABLE_CACHE, redisConfigured, isRedisAvailable, redisStore, memoryCache, now, httpCalls>>
    /\ UNCHANGED <<stopCodes, op, requests, calls, coldStart>>
    /\ UNCHANGED <<kind, source, pc, step, nextPending, cancelled, pulls, emitted, fetches, waits>>
    /\ UNCHANGED formatVars

\* cache.set of the fresh value, then the merge into the call's map
TaskSet(i) ==
    /\ callState = "running"
    /\ i \in DOMAIN tasks
    /\ tasks[i].pc = "set"
    /\ \E path \in StorePaths :
         LET s == set(tasks[i].key, tasks[i].fresh, Ttl(op), path) IN
         /\ redisStore' = s.redis
         /\ memoryCache' = s.mem
         /\ tasks' = [tasks EXCEPT ![i].pc = IF s.threw THEN "failed" ELSE "done",
                                   ![i].status = IF s.threw THEN "cache_error"
                                                 ELSE tasks[i].status,
                                   ![i].setVia = s.via]
         /\ result' = IF s.threw THEN result ELSE Merge(op, result, tasks[i].fresh)
         /\ callState' = IF s.threw THEN OnTaskFailure(op) ELSE callState
    /\ UNCHANGED <<ENABLE_CACHE, redisConfigured, isRedisAvailable, now, httpCalls>>
    /\ UNCHANGED <<stopCodes, op, requests, calls, coldStart>>
    /\ UNCHANGED streamVars
    /\ UNCHANGED formatVars

AllSettled == \A i \in DOMAIN tasks : tasks[i].pc \in {"done", "failed"}

\* ------------------------------------- the batching lookups called directly
\* identifier lists a caller may pass: codes 1..NumCodes cycled, in either
\* direction, so lists longer than NumCodes repeat a code in a later chunk
InputLists ==
    {[i \in 1..n |-> ((IF rev THEN n - i ELSE i - 1) % m) + 1] :
        n \in 0..MaxN, rev \in BOOLEAN, m \in {2, NumCodes}}

Call ==
    /\ kind = "none"
    /\ callState \in {"idle", "returned"}
    /\ calls < MaxCalls
    /\ StartCall(op, stopCodes)
    /\ UNCHANGED <<ENABLE_CACHE, redisConfigured, isRedisAvailable, redisStore, memoryCache, now, httpCalls>>
    /\ UNCHANGED streamVars
    /\ UNCHANGED formatVars

\* await Promise.all(promises); return the map
BatchReturn ==
    /\ kind = "none"
    /\ callState = "running"
    /\ AllSettled
    /\ callState' = "returned"
    /\ UNCHANGED <<ENABLE_CACHE, redisConfigured, isRedisAvailable, redisStore, memoryCache, now, httpCalls>>
    /\ UNCHANGED <<stopCodes, op, tasks, result, requests, calls, coldStart>>
    /\ UNCHANGED streamVars
    /\ UNCHANGED formatVars

\* between two calls the entries of the first one run out
Elapse ==
    /\ kind = "none"
    /\ callState = "returned"
    /\ calls < MaxCalls
    /\ now' = now + Ttl(op) * 1000 + 1
    /\ callState' = "idle"
    /\ UNCHANGED <<ENABLE_CACHE, redisConfigured, isRedisAvailable, redisStore, memoryCache, httpCalls>>
    /\ UNCHANGED <<stopCodes, op, tasks, result, requests, calls, coldStart>>
    /\ UNCHANGED streamVars
    /\ UNCHANGED formatVars

\* ------------------------------------------- the raw lookups called directly
\* fetchBusStopProfilesRaw, fetchBusStopPredictionsRaw, fetchBusPositionsRaw and
\* fetchSystemTime invoked by a caller of their own, with no cache and no
\* chunking in front of them (getCachedOrFetch with ENABLE_CACHE off is
\* `await fetcher()`); the caller passes the whole list
RawOps == {"profiles", "predictions", "actVehicles", "time"}

RawCall ==
    /\ kind = "none"
    /\ callState \in {"idle", "returned", "threw"}
    /\ calls < MaxCalls
    /\ \E opx \in RawOps :
         \E codes \in (IF opx \in BatchOps THEN InputLists ELSE {<<>>}) :
            /\ op' = opx
            /\ stopCodes' = codes
            /\ tasks' = <<[chunk |-> codes, key |-> CacheKey(opx, codes),
                           pc |-> "get", status |-> "none", resp |-> NoResponse,
                           fresh |-> Miss, getVia |-> "none", setVia |-> "none", startNo |-> 0]>>
    /\ result' = Miss
    /\ requests' = <<>>
    /\ calls' = calls + 1
    /\ coldStart' = TRUE
    /\ callState' = "running"
    /\ UNCHANGED <<ENABLE_CACHE, redisConfigured, isRedisAvailable, redisStore, memoryCache, now, httpCalls>>
    /\ UNCHANGED streamVars
    /\ UNCHANGED formatVars

\* the raw lookup's promise settles: resolved with its value, or rejected
RawReturn ==
    /\ kind = "none"
    /\ callState = "running"
    /\ AllSettled
    /\ callState' = IF tasks[1].pc = "failed" THEN "threw" ELSE "returned"
    /\ UNCHANGED <<ENABLE_CACHE, redisConfigured, isRedisAvailable, redisStore, memoryCache, now, httpCalls>>
    /\ UNCHANGED <<stopCodes, op, tasks, result, requests, calls, coldStart>>
    /\ UNCHANGED streamVars
    /\ UNCHANGED formatVars

\* --------------------------------------- getCachedOrFetch called directly
\* time passes between two calls of getCachedOrFetch on the same key: a
\* moment, exactly the entry's lifetime, or a moment more than that
Wait ==
    /\ kind = "none"
    /\ callState \in {"returned", "threw"}
    /\ calls < MaxCalls
    /\ \E d \in {1, Ttl(op) * 1000, Ttl(op) * 1000 + 1} : now' = now + d
    /\ callState' = "idle"
    /\ UNCHANGED <<ENABLE_CACHE, redisConfigured, isRedisAvailable, redisStore, memoryCache, httpCalls>>
    /\ UNCHANGED <<stopCodes, op, tasks, result, requests, calls, coldStart>>
    /\ UNCHANGED streamVars
    /\ UNCHANGED formatVars

\* the HybridCache constructor: Redis is set up only with REDIS_URL and
\* ENABLE_CACHE, and counts as available from its first 'connect' event on
InitCache ==
    /\ ENABLE_CACHE \in BOOLEAN
    /\ redisConfigured \in (IF ENABLE_CACHE THEN BOOLEAN ELSE {FALSE})
    /\ isRedisAvailable = FALSE
    /\ redisStore = <<>>
    /\ memoryCache = <<>>
    /\ now = 0

\* no formatter call in progress
InitNoFormatter ==
    /\ fn = "none"
    /\ input = <<>>
    /\ output = <<>>

InitNoStream ==
    /\ kind = "none"
    /\ source = "none"
    /\ pc = "none"
    /\ step = "none"
    /\ nextPending = FALSE
    /\ cancelled = FALSE
    /\ pulls = 0
    /\ emitted = <<>>
    /\ fetches = 0
    /\ waits = 0
    /\ transientSeen = FALSE

\* the batching lookups under the default deployment (no REDIS_URL)
InitBatch ==
    /\ InitNoFormatter
    /\ InitCache
    /\ redisConfigured = FALSE
    /\ InitNoStream
    /\ stopCodes \in InputLists
    /\ op \in BatchOps
    /\ callState = "idle"
    /\ tasks = <<>>
    /\ result = MapValue(EmptyMap)
    /\ requests = <<>>
    /\ calls = 0
    /\ coldStart = TRUE
    /\ httpCalls = 0

NextBatch ==
    \/ Call
    \/ \E i \in DOMAIN tasks : TaskGet(i)
    \/ \E i \in DOMAIN tasks : TaskResponse(i)
    \/ \E i \in DOMAIN tasks : TaskSet(i)
    \/ BatchReturn
    \/ Elapse

SpecBatch == InitBatch /\ [][NextBatch]_vars

\* getCachedOrFetch with caching enabled, with or without REDIS_URL
InitProducer ==
    /\ InitNoFormatter
    /\ InitCache
    /\ ENABLE_CACHE = TRUE
    /\ InitNoStream
    /\ stopCodes = <<>>
    /\ op = "producer"
    /\ callState = "idle"
    /\ tasks = <<>>
    /\ result = Miss
    /\ requests = <<>>
    /\ calls = 0
    /\ coldStart = TRUE
    /\ httpCalls = 0

NextCache ==
    \/ Call
    \/ \E i \in DOMAIN tasks : TaskGet(i)
    \/ \E i \in DOMAIN tasks : TaskResponse(i)
    \/ \E i \in DOMAIN tasks : TaskSet(i)
    \/ BatchReturn
    \/ Wait
    \/ RedisConnect
    \/ RedisError

SpecCache == InitProducer /\ [][NextCache]_vars

\* --------------------------- concurrent getCachedOrFetch calls on the cache
\* the keys the concurrent callers ask for
CallerKeys == {<<1>>, <<2>>}

\* up to MaxCallers callers invoke getCachedOrFetch before any of them is
\* resumed, each on a key of its own choice
ConcurrentCalls ==
    /\ kind = "none"
    /\ op = "callers"
    /\ callState \in {"idle", "returned"}
    /\ calls < MaxCalls
    /\ \E n \in 1..MaxCallers :
         \E ks \in [1..n -> CallerKeys] :
            /\ tasks' = [i \in 1..n |->
                            [chunk |-> ks[i], key |-> CacheKey(op, ks[i]),
                             pc |-> "get", status |-> "none", resp |-> NoResponse,
                             fresh |-> Miss, getVia |-> "none", setVia |-> "none", startNo |-> 0]]
            /\ coldStart' = \A i \in 1..n : ~HasLiveEntry(CacheKey(op, ks[i]))
    /\ result' = Miss
    /\ requests' = <<>>
    /\ calls' = calls + 1
    /\ callState' = "running"
    /\ UNCHANGED <<ENABLE_CACHE, redisConfigured, isRedisAvailable, redisStore, memoryCache, now, httpCalls>>
    /\ UNCHANGED <<stopCodes, op>>
    /\ UNCHANGED streamVars
    /\ UNCHANGED formatVars

\* the default deployment (no REDIS_URL): every get and set is served by the
\* fallback map, the store whose reads and writes run in this process
InitCallers ==
    /\ InitNoFormatter
    /\ InitCache
    /\ ENABLE_CACHE = TRUE
    /\ redisConfigured = FALSE
    /\ InitNoStream
    /\ stopCodes = <<>>
    /\ op = "callers"
    /\ callState = "idle"
    /\ tasks = <<>>
    /\ result = Miss
    /\ requests = <<>>
    /\ calls = 0
    /\ coldStart = TRUE
    /\ httpCalls = 0

NextCallers ==
    \/ ConcurrentCalls
    \/ \E i \in DOMAIN tasks : TaskGet(i)
    \/ \E i \in DOMAIN tasks : TaskResponse(i)
    \/ \E i \in DOMAIN tasks : TaskSet(i)
    \/ BatchReturn
    \/ Wait

SpecCallers == InitCallers /\ [][NextCallers]_vars

\* ------------------------------------------- cache.set called again and again
\* the ttl a caller passes: one second or the default
SweepTtls(n) == IF n <= MaxShortLived THEN {1, DEFAULT_TTL} ELSE {DEFAULT_TTL}

\* cache.set(key, value, ttl) on a key not yet in the map
SetEntry ==
    /\ kind = "none"
    /\ op = "set"
    /\ calls < cleanupThreshold + MaxCalls
    /\ \E ttl \in SweepTtls(calls + 1) : \E path \in StorePaths :
         LET key == <<"entry", <<calls + 1>>>>
             s == set(key, StringValue(<<>>), ttl, path)
         IN  /\ redisStore' = s.redis
             /\ memoryCache' = s.mem
             /\ tasks' = <<[chunk |-> <<calls + 1>>, key |-> key,
                            pc |-> "done", status |-> "set", resp |-> NoResponse,
                            fresh |-> StringValue(<<>>),
                            getVia |-> "none", setVia |-> s.via, startNo |-> 0]>>
    /\ calls' = calls + 1
    /\ UNCHANGED <<ENABLE_CACHE, redisConfigured, isRedisAvailable, now, httpCalls>>
    /\ UNCHANGED <<stopCodes, op, callState, result, requests, coldStart>>
    /\ UNCHANGED streamVars
    /\ UNCHANGED formatVars

\* cache.get(key) on one of the keys set first, once they are all set and once
\* more when the map is about to outgrow the threshold
GetEntry ==
    /\ kind = "none"
    /\ op = "set"
    /\ calls \in {MaxShortLived, cleanupThreshold}
    /\ \E n \in 1..MaxShortLived : \E path \in StorePaths :
         LET key == <<"entry", <<n>>>>
             g == get(key, path)
         IN  /\ memoryCache' = g.mem
             /\ tasks' = <<[chunk |-> <<n>>, key |-> key,
                            pc |-> "done",
                            status |-> IF IsNull(g.val) THEN "miss" ELSE "hit",
                            resp |-> NoResponse, fresh |-> g.val,
                            getVia |-> g.via, setVia |-> "none", startNo |-> 0]>>
    /\ UNCHANGED <<ENABLE_CACHE, redisConfigured, isRedisAvailable, redisStore, now, httpCalls>>
    /\ UNCHANGED <<stopCodes, op, callState, result, requests, calls, coldStart>>
    /\ UNCHANGED streamVars
    /\ UNCHANGED formatVars

\* time passes after the short-lived entries were set, or just before the map
\* outgrows the threshold: a second and a moment, or the default ttl and a moment
SweepTick ==
    /\ kind = "none"
    /\ op = "set"
    /\ calls \in {MaxShortLived, cleanupThreshold}
    /\ now <= 1001
    /\ \E d \in {1001, DEFAULT_TTL * 1000 + 1} : now' = now + d
    /\ UNCHANGED <<ENABLE_CACHE, redisConfigured, isRedisAvailable, redisStore, memoryCache, httpCalls>>
    /\ UNCHANGED callVars
    /\ UNCHANGED streamVars
    /\ UNCHANGED formatVars

InitSweep ==
    /\ InitNoFormatter
    /\ InitCache
    /\ ENABLE_CACHE = TRUE
    /\ redisConfigured = FALSE
    /\ InitNoStream
    /\ stopCodes = <<>>
    /\ op = "set"
    /\ callState = "idle"
    /\ tasks = <<>>
    /\ result = Miss
    /\ requests = <<>>
    /\ calls = 0
    /\ coldStart = TRUE
    /\ httpCalls = 0

NextSweep ==
    \/ SetEntry
    \/ GetEntry
    \/ SweepTick

SpecSweep == InitSweep /\ [][NextSweep]_vars

\* ------------------------------------- the timestamp resolver called directly
\* the cache, the service calls and the subscription stay as constructed
InitIdleServices ==
    /\ InitCache
    /\ ENABLE_CACHE = TRUE
    /\ redisConfigured = FALSE
    /\ InitNoStream
    /\ stopCodes = <<>>
    /\ op = "none"
    /\ callState = "idle"
    /\ tasks = <<>>
    /\ result = Miss
    /\ requests = <<>>
    /\ calls = 0
    /\ coldStart = TRUE
    /\ httpCalls = 0

\* the texts of the five fields of a `YYYYMMDD HH:MM` string
YearTexts == {<<"2", "0", "2", "5">>, <<"x", "0", "2", "5">>}

MonthTexts ==
    {<<"0", "1">>, <<"0", "3">>, <<"1", "1">>, <<"1", "2">>, <<"1", "3">>, <<"0", "0">>,
     <<"1", "x">>}

DayTexts ==
    {<<"0", "1">>, <<"0", "2">>, <<"0", "8">>, <<"0", "9">>, <<"3", "1">>, <<"3", "2">>,
     <<"0", "0">>, <<"0", "x">>}

HourTexts ==
    {<<"0", "0">>, <<"0", "1">>, <<"0", "2">>, <<"0", "3">>, <<"2", "3">>, <<"2", "4">>,
     <<"2", "x">>}

MinuteTexts == {<<"0", "0">>, <<"3", "0">>, <<"5", "9">>, <<"6", "0">>, <<"x", "0">>}

\* what `new Date()` gives when the resolver falls back: an instant in 2026
Clock == DateUTC(2026, 5, 1, 12, 0)

Stamp(f) == f[1] \o f[2] \o f[3] \o <<" ">> \o f[4] \o <<":">> \o f[5]

\* the argument of the resolver: absent, empty, without the space, with a date
\* part of 7 characters, or date, space, time with the fields f
TimestampValues ==
    {[present |-> FALSE, text |-> <<>>, form |-> "missing", fields |-> <<>>],
     [present |-> TRUE, text |-> <<>>, form |-> "empty", fields |-> <<>>],
     [present |-> TRUE, form |-> "nospace", fields |-> <<>>,
      text |-> <<"2", "0", "2", "5", "0", "3", "1", "5", "0", "1", ":", "3", "0">>],
     [present |-> TRUE, form |-> "shortdate", fields |-> <<>>,
      text |-> <<"2", "0", "2", "5", "0", "3", "5", " ", "0", "1", ":", "3", "0">>]}
    \cup {[present |-> TRUE, text |-> Stamp(f), form |-> "stamp", fields |-> f] :
            f \in YearTexts \X MonthTexts \X DayTexts \X HourTexts \X MinuteTexts}

\* one call of the resolver
ResolveTimestamp ==
    /\ fn = "none"
    /\ "value" \in DOMAIN input
    /\ \E impl \in Resolvers :
         /\ fn' = impl
         /\ output' = ResolveWith(impl, input)
    /\ UNCHANGED input
    /\ UNCHANGED <<ENABLE_CACHE, redisConfigured, isRedisAvailable, redisStore, memoryCache, now, httpCalls>>
    /\ UNCHANGED callVars
    /\ UNCHANGED streamVars

InitTimestamp ==
    /\ InitIdleServices
    /\ fn = "none"
    /\ input \in {[value |-> v, zone |-> z, clock |-> Clock] :
                     v \in TimestampValues, z \in ProcessZones}
    /\ output = <<>>

NextTimestamp == ResolveTimestamp

SpecTimestamp == InitTimestamp /\ [][NextTimestamp]_vars

\* ------------------------------------------------------------- normalizers
StampValue(f) == [present |-> TRUE, text |-> Stamp(f), form |-> "stamp", fields |-> f]

\* raw ACT RealTime predictions: direction, predicted time, countdown
RawPredictions ==
    {[rtdir |-> "To Amtrak", vid |-> <<"7">>, tatripid |-> <<"1">>, prdctdn |-> <<"5">>,
      prdtm |-> StampValue(<<<<"2", "0", "2", "5">>, <<"1", "1">>, <<"0", "2">>,
                             <<"0", "1">>, <<"3", "0">>>>)],
     [rtdir |-> "To Amtrak", vid |-> <<"8">>, tatripid |-> <<"2">>,
      prdctdn |-> <<"D", "u", "e">>,
      prdtm |-> StampValue(<<<<"2", "0", "2", "5">>, <<"0", "3">>, <<"0", "9">>,
                             <<"0", "3">>, <<"0", "0">>>>)],
     [rtdir |-> "To Amtrak", vid |-> <<"9">>, tatripid |-> <<"3">>,
      prdctdn |-> <<"-", "3">>,
      prdtm |-> [present |-> TRUE, text |-> <<>>, form |-> "empty", fields |-> <<>>]],
     [rtdir |-> "Away from campus", vid |-> <<"1", "0">>, tatripid |-> <<"4">>,
      prdctdn |-> <<"x">>,
      prdtm |-> StampValue(<<<<"2", "0", "2", "5">>, <<"0", "1">>, <<"0", "1">>,
                             <<"0", "0">>, <<"0", "0">>>>)],
     [rtdir |-> "To Rockridge BART", vid |-> <<"1", "1">>, tatripid |-> <<"5">>,
      prdctdn |-> <<"-", "3">>,
      prdtm |-> StampValue(<<<<"2", "0", "2", "5">>, <<"1", "2">>, <<"3", "1">>,
                             <<"2", "3">>, <<"5", "9">>>>)],
     [rtdir |-> "To Rockridge BART", vid |-> <<"1", "2">>, tatripid |-> <<"6">>,
      prdctdn |-> <<>>,
      prdtm |-> StampValue(<<<<"2", "0", "2", "5">>, <<"0", "1">>, <<"0", "2">>,
                             <<"0", "2">>, <<"3", "0">>>>)]}

\* `new Date()` of the GTFS normalizer, in seconds
FeedClock == 6000

StopTime(stop, arrival, departure) ==
    [stopId |-> stop, arrival |-> arrival, departure |-> departure]

\* trip-update entities of a GTFS-Realtime feed; each has its own id
TripEntities ==
    {[id |-> Str(<<"1">>), hasTripUpdate |-> TRUE, routeId |-> Str(<<"5", "1", "B">>),
      directionId |-> 0, descriptorId |-> Absent, tripId |-> <<"1">>,
      stopTimeUpdate |-> <<StopTime(Str(<<"5">>), Num(FeedClock + 90), Absent)>>],
     [id |-> Str(<<"2">>), hasTripUpdate |-> TRUE, routeId |-> Str(<<"5", "1", "B">>),
      directionId |-> 1, descriptorId |-> Absent, tripId |-> <<"2">>,
      stopTimeUpdate |-> <<StopTime(Str(<<"5">>), Num(FeedClock - 120),
                                    Num(FeedClock - 100))>>],
     [id |-> Str(<<"3">>), hasTripUpdate |-> TRUE, routeId |-> Str(<<"5", "1", "B">>),
      directionId |-> 1, descriptorId |-> Str(<<>>), tripId |-> <<"3">>,
      stopTimeUpdate |-> <<StopTime(Str(<<"5">>), Num(0), Num(FeedClock + 29))>>],
     [id |-> Str(<<"4">>), hasTripUpdate |-> TRUE, routeId |-> Absent,
      directionId |-> 0, descriptorId |-> Absent, tripId |-> <<"4">>,
      stopTimeUpdate |-> <<StopTime(Str(<<"5">>), Num(FeedClock + 60), Absent)>>],
     [id |-> Str(<<"5">>), hasTripUpdate |-> TRUE, routeId |-> Str(<<"5", "1", "B">>),
      directionId |-> 0, descriptorId |-> Absent, tripId |-> <<"5">>,
      stopTimeUpdate |-> <<StopTime(Str(<<"5">>), Num(FeedClock + 30), Absent),
                           StopTime(Str(<<"6">>), Num(FeedClock - 20), Absent),
                           StopTime(Absent, Num(FeedClock + 600), Absent)>>],
     [id |-> Str(<<"6">>), hasTripUpdate |-> FALSE, routeId |-> Absent,
      directionId |-> 0, descriptorId |-> Absent, tripId |-> <<"6">>,
      stopTimeUpdate |-> <<>>]}

VehicleEntity(id, descriptorId, routeId, latitude, longitude) ==
    [id |-> id, hasVehicle |-> TRUE, descriptorId |-> descriptorId, routeId |-> routeId,
     latitude |-> latitude, longitude |-> longitude, defaults |-> {}]

\* vehicle entities of a GTFS-Realtime feed as FeedMessage.decode returns them;
\* each has its own id. `defaults` names the fields the message does not carry:
\* on the decoded object they read as the default of the generated class ("" for
\* the id of a vehicle descriptor), they are not properties of the object itself
VehicleEntities ==
    {VehicleEntity(Str(<<"1">>), Str(<<"2", "0">>), Str(<<"5", "1", "B">>), Num(37), Num(0 - 122)),
     VehicleEntity(Str(<<"2">>), Str(<<"9">>), Str(<<"5", "1", "B">>), Num(38), Num(0 - 122)),
     VehicleEntity(Str(<<"3">>), Absent, Str(<<"5", "1", "B">>), Num(37), Num(0 - 121)),
     VehicleEntity(Str(<<"4">>), Str(<<"1", "5">>), Str(<<"5", "1", "B">>), Absent, Absent),
     [VehicleEntity(Str(<<"5">>), Str(<<>>), Str(<<"5", "1", "B">>), Num(37), Num(0 - 122))
        EXCEPT !.defaults = {"descriptorId"}],
     VehicleEntity(Str(<<"6">>), Str(<<"1", "2">>), Str(<<>>), Num(37), Num(0 - 122)),
     VehicleEntity(Str(<<"7">>), Str(<<"1", "3">>), Str(<<"5", "1", "B">>), NaN, Num(0 - 122)),
     [VehicleEntity(Str(<<"8">>), Absent, Absent, Absent, Absent) EXCEPT !.hasVehicle = FALSE]}

RawPosition(no, vid, rt, lat, lon) ==
    [no |-> no, vid |-> vid, rt |-> rt, lat |-> lat, lon |-> lon]

\* raw ACT RealTime vehicle records; no is the record's place in the universe
RawPositions ==
    {RawPosition(<<"1">>, Str(<<"2", "0">>), Str(<<"5", "1", "B">>), Str(<<"3", "7">>), Str(<<"1", "2", "2">>)),
     RawPosition(<<"2">>, Str(<<" ", "9", " ">>), Str(<<"5", "1", "B">>), Str(<<" ", "3", "8">>), Num(122)),
     RawPosition(<<"3">>, Str(<<"1", "5">>), Str(<<"5", "1", "B">>), Str(<<>>), Str(<<"1", "2", "2">>)),
     RawPosition(<<"4">>, Str(<<>>), Str(<<"5", "1", "B">>), Str(<<"3", "7">>), Str(<<"1", "2", "2">>)),
     RawPosition(<<"5">>, Str(<<"1", "2">>), Absent, Str(<<"3", "7">>), Str(<<"1", "2", "2">>)),
     RawPosition(<<"6">>, Str(<<"1", "3">>), Str(<<"5", "1", "B">>), Str(<<"3", "7">>), Str(<<"x">>)),
     RawPosition(<<"7">>, Absent, Str(<<"5", "1", "B">>), Str(<<"3", "7">>), Absent)}

\* the lists of at most MaxRecords records of a universe
Lists(universe) == UNION {[1..n -> universe] : n \in 0..MaxRecords}

\* the fields of the state the normalizers leave alone
NormalizerFrame ==
    /\ UNCHANGED input
    /\ UNCHANGED <<ENABLE_CACHE, redisConfigured, isRedisAvailable, redisStore, memoryCache, now, httpCalls>>
    /\ UNCHANGED callVars
    /\ UNCHANGED streamVars

NormalizeActPredictions ==
    /\ fn = "none"
    /\ input.kind = "rawPredictions"
    /\ fn' = "createBusStopPredictionsFromActRealtime"
    /\ output' = createBusStopPredictionsFromActRealtime(
                     input.records, input.isOutbound, input.resolver, input.clock, input.zone)
    /\ NormalizerFrame

NormalizeGtfsPredictions ==
    /\ fn = "none"
    /\ input.kind = "tripUpdates"
    /\ fn' = "createBusStopPredictionsFromGtfsFeed"
    /\ output' = createBusStopPredictionsFromGtfsFeed(input.records, input.isOutbound,
                                                      input.clock)
    /\ NormalizerFrame

NormalizeGtfsPositions ==
    /\ fn = "none"
    /\ input.kind = "vehicles"
    /\ fn' = "createBusPositionsFromGtfsFeed"
    /\ output' = createBusPositionsFromGtfsFeed(input.records)
    /\ NormalizerFrame

NormalizeActPositions ==
    /\ fn = "none"
    /\ input.kind = "rawPositions"
    /\ fn' = "createBusPositionsFromActRealtime"
    /\ output' = createBusPositionsFromActRealtime(input.records)
    /\ NormalizerFrame

InitNormalize ==
    /\ InitIdleServices
    /\ fn = "none"
    /\ output = <<>>
    /\ \/ input \in {[kind |-> "rawPredictions", records |-> r, isOutbound |-> d,
                       resolver |-> impl, clock |-> Clock, zone |-> "America/Los_Angeles"] :
                         r \in Lists(RawPredictions), d \in BOOLEAN, impl \in Resolvers}
       \/ input \in {[kind |-> "tripUpdates", records |-> r, isOutbound |-> d,
                       clock |-> FeedClock] :
                         r \in Lists(TripEntities), d \in BOOLEAN}
       \/ input \in {[kind |-> "vehicles", records |-> r] : r \in Lists(VehicleEntities)}
       \/ input \in {[kind |-> "rawPositions", records |-> r] : r \in Lists(RawPositions)}

NextNormalize ==
    \/ NormalizeActPredictions
    \/ NormalizeGtfsPredictions
    \/ NormalizeGtfsPositions
    \/ NormalizeActPositions

SpecNormalize == InitNormalize /\ [][NextNormalize]_vars

InitRaw ==
    /\ InitNoFormatter
    /\ ENABLE_CACHE = FALSE
    /\ redisConfigured = FALSE
    /\ isRedisAvailable = FALSE
    /\ redisStore = <<>>
    /\ memoryCache = <<>>
    /\ now = 0
    /\ InitNoStream
    /\ stopCodes = <<>>
    /\ op = "none"
    /\ callState = "idle"
    /\ tasks = <<>>
    /\ result = Miss
    /\ requests = <<>>
    /\ calls = 0
    /\ coldStart = TRUE
    /\ httpCalls = 0

NextRaw ==
    \/ RawCall
    \/ \E i \in DOMAIN tasks : TaskGet(i)
    \/ \E i \in DOMAIN tasks : TaskResponse(i)
    \/ RawReturn

SpecRaw == InitRaw /\ [][NextRaw]_vars

\* ===================================================== polling subscriptions
\* The subscribe functions are async generators.  A consumer drives one with
\* next() and ends it with return().  A request that arrives while the body
\* runs (awaiting the timer or a fetch) is queued until the body reaches its
\* next yield; a return() that finds the generator suspended completes it at
\* once.  The consumer modelled here has at most one next() outstanding.
Streams ==
    {<<"busPositions", "GTFS_REALTIME">>, <<"busPositions", "ACT_REALTIME">>,
     <<"busStopPredictions", "GTFS_REALTIME">>, <<"busStopPredictions", "ACT_REALTIME">>,
     <<"systemTime", "ACT_REALTIME">>}

Suspended == pc \in {"suspendedStart", "yieldInitial", "yieldPoll", "yieldCatch"}

\* variant: a loop without its delay, every next() fetches at once
AfterSuspension_FetchAtOnce(p) == "priming"

\* variant: the loop's delay runs before the first fetch
AfterSuspension_WaitFirst(p) == "wait"

\* where the body continues when next() resumes it: the first next() runs the
\* initial fetch, every later one enters the loop and starts the timer
AfterSuspension(p) == IF p = "suspendedStart" THEN "priming" ELSE "wait"

\* variant: the initial fetch swallows a plain Error like the loop does
InitialCatch_Swallow(err) == IF err = "not_found" THEN "throw" ELSE "yield"

\* the catch block around the initial fetch: a GraphQLError is rethrown, any
\* other error is wrapped into a GraphQLError FETCH_ERROR and thrown
InitialCatch(err) == "throw"

\* variant: the loop swallows every error
PollingCatch_SwallowAll(k, err) == "yield"

\* the catch block inside the loop: busStopPredictions rethrows a GraphQLError
\* with code NOT_FOUND, busPositions and systemTime any GraphQLError; the only
\* GraphQLError a fetch raises is NOT_FOUND
PollingCatch(k, err) == IF err = "not_found" THEN "throw" ELSE "yield"

\* variant: the loop re-emits the previous snapshot
CatchValue_Stale(k) ==
    IF emitted # <<>> THEN emitted[Len(emitted)].value ELSE <<>>

\* what the loop yields after a swallowed error: an empty list, or new Date()
CatchValue(k) == IF k = "systemTime" THEN <<"local">> ELSE <<>>

ErrorCode(err) == IF err = "not_found" THEN "NOT_FOUND" ELSE "FETCH_ERROR"

\* the formatters, reduced to the records they keep
Normalized(records) == [i \in DOMAIN records |-> 1]

\* fetchSystemTime goes to the network directly
StartTime ==
    /\ op' = "time"
    /\ tasks' = <<[chunk |-> <<>>, key |-> <<"time", <<>>>>,
                   pc |-> "http", status |-> "none", resp |-> NoResponse, fresh |-> Miss,
              getVia |-> "none", setVia |-> "none", startNo |-> 0]>>
    /\ result' = Miss
    /\ requests' = <<<<>>>>
    /\ calls' = calls + 1
    /\ coldStart' = TRUE
    /\ callState' = "running"
    /\ httpCalls' = httpCalls + 1
    /\ UNCHANGED stopCodes

\* the first service call of fetchBusPositions / fetchBusStopPredictions /
\* fetchSystemTime
BeginFetch ==
    IF kind = "systemTime" THEN StartTime /\ step' = "time"
    ELSE /\ UNCHANGED httpCalls
         /\ IF kind = "busPositions"
            THEN /\ StartCall(IF source = "GTFS_REALTIME" THEN "gtfsVehicles" ELSE "actVehicles",
                              stopCodes)
                 /\ step' = "vehicles"
            ELSE IF source = "GTFS_REALTIME"
            THEN StartCall("profiles", stopCodes) /\ step' = "profiles"
            ELSE StartCall("predictions", stopCodes) /\ step' = "predictions"

\* next(): the consumer pulls the next value
ConsumerNext ==
    /\ kind # "none"
    /\ Suspended
    /\ ~nextPending
    /\ ~cancelled
    /\ pulls < MaxPulls
    /\ pulls' = pulls + 1
    /\ nextPending' = TRUE
    /\ pc' = AfterSuspension(pc)
    /\ IF AfterSuspension(pc) = "priming"
       THEN /\ BeginFetch
            /\ fetches' = fetches + 1
            /\ UNCHANGED waits
       ELSE /\ waits' = waits + 1
            /\ UNCHANGED <<fetches, step, httpCalls>>
            /\ UNCHANGED callVars
    /\ transientSeen' = FALSE
    /\ UNCHANGED <<ENABLE_CACHE, redisConfigured, isRedisAvailable, redisStore, memoryCache, now>>
    /\ UNCHANGED <<kind, source, cancelled, emitted>>
    /\ UNCHANGED formatVars

\* return(): the consumer cancels the subscription
ConsumerReturn ==
    /\ kind # "none"
    /\ ~cancelled
    /\ pc # "completed"
    /\ cancelled' = TRUE
    /\ pc' = IF Suspended THEN "completed" ELSE pc
    /\ UNCHANGED <<ENABLE_CACHE, redisConfigured, isRedisAvailable, redisStore, memoryCache, now, httpCalls>>
    /\ UNCHANGED callVars
    /\ UNCHANGED <<kind, source, step, nextPending, pulls, emitted, fetches, waits, transientSeen>>
    /\ UNCHANGED formatVars

\* the setTimeout promise resolves and the loop body fetches
TimerFires ==
    /\ pc = "wait"
    /\ pc' = "polling"
    /\ \E late \in {0, 1} : now' = now + POLLING_INTERVAL + late
    /\ BeginFetch
    /\ fetches' = fetches + 1
    /\ transientSeen' = FALSE
    /\ UNCHANGED <<ENABLE_CACHE, redisConfigured, isRedisAvailable, redisStore, memoryCache>>
    /\ UNCHANGED <<kind, source, nextPending, cancelled, pulls, emitted, waits>>
    /\ UNCHANGED formatVars

ServiceSettled == callState = "threw" \/ (callState = "running" /\ AllSettled)

\* how the awaited service call ends for fetchBusPositions /
\* fetchBusStopPredictions / fetchSystemTime: continue with the trip updates,
\* return a value, or throw
ServiceOutcome ==
    IF step = "profiles"
    THEN IF Head(stopCodes) \in DOMAIN result.data
         THEN [t |-> "continue", err |-> "none", value |-> <<>>]
         ELSE [t |-> "throw", err |-> "not_found", value |-> <<>>]
    ELSE IF callState = "threw"
    THEN [t |-> "throw", err |-> "transient", value |-> <<>>]
    ELSE IF step = "predictions"
    THEN [t |-> "return", err |-> "none",
          value |-> IF Head(stopCodes) \in DOMAIN result.data
                    THEN Normalized(result.data[Head(stopCodes)].data) ELSE <<>>]
    ELSE IF step = "time"
    THEN [t |-> "return", err |-> "none", value |-> <<"upstream">>]
    ELSE [t |-> "return", err |-> "none", value |-> Normalized(result.data)]

Emission(type, value, code, outcome) ==
    [type |-> type, value |-> value, code |-> code, outcome |-> outcome,
     fetchNo |-> fetches, waitNo |-> waits, httpNo |-> httpCalls, phase |-> pc,
     upstreamTransient |-> transientSeen, afterCancel |-> cancelled]

\* the yield resolves the pending next(); a queued return() then completes
\* the generator
Yield(e, at) ==
    /\ emitted' = Append(emitted, e)
    /\ nextPending' = FALSE
    /\ pc' = IF cancelled THEN "completed" ELSE at

\* the throw rejects the pending next() and completes the generator
Throw(e) ==
    /\ emitted' = Append(emitted, e)
    /\ nextPending' = FALSE
    /\ pc' = "completed"

\* the awaited service call settles and the generator body runs on to its
\* next await, yield or throw
FetchResume ==
    /\ StreamRunning
    /\ ServiceSettled
    /\ LET o == ServiceOutcome
       IN  IF o.t = "continue"
           THEN /\ StartCall("gtfsTrips", stopCodes)
                /\ step' = "trips"
                /\ UNCHANGED <<pc, nextPending, emitted>>
           ELSE /\ callState' = "idle"
                /\ step' = "none"
                /\ UNCHANGED <<stopCodes, op, tasks, result, requests, calls, coldStart>>
                /\ IF o.t = "return"
                   THEN Yield(Emission("snapshot", o.value, "", "ok"),
                              IF pc = "priming" THEN "yieldInitial" ELSE "yieldPoll")
                   ELSE IF pc = "priming"
                   THEN IF InitialCatch(o.err) = "throw"
                        THEN Throw(Emission("error", <<>>, ErrorCode(o.err), o.err))
                        ELSE Yield(Emission("snapshot", CatchValue(kind), "", o.err), "yieldInitial")
                   ELSE IF PollingCatch(kind, o.err) = "throw"
                        THEN Throw(Emission("error", <<>>, ErrorCode(o.err), o.err))
                        ELSE Yield(Emission("snapshot", CatchValue(kind), "", o.err), "yieldCatch")
    /\ UNCHANGED <<ENABLE_CACHE, redisConfigured, isRedisAvailable, redisStore, memoryCache, now, httpCalls>>
    /\ UNCHANGED <<kind, source, cancelled, pulls, fetches, waits, transientSeen>>
    /\ UNCHANGED formatVars

\* one subscription under the default deployment (no REDIS_URL)
InitStream ==
    /\ InitNoFormatter
    /\ InitCache
    /\ redisConfigured = FALSE
    /\ \E st \in Streams : kind = st[1] /\ source = st[2]
    /\ pc = "suspendedStart"
    /\ step = "none"
    /\ nextPending = FALSE
    /\ cancelled = FALSE
    /\ pulls = 0
    /\ emitted = <<>>
    /\ fetches = 0
    /\ waits = 0
    /\ transientSeen = FALSE
    /\ stopCodes = IF kind = "busStopPredictions" THEN <<1>> ELSE <<>>
    /\ op = "none"
    /\ callState = "idle"
    /\ tasks = <<>>
    /\ result = Miss
    /\ requests = <<>>
    /\ calls = 0
    /\ coldStart = TRUE
    /\ httpCalls = 0

Next ==
    \/ ConsumerNext
    \/ ConsumerReturn
    \/ TimerFires
    \/ \E i \in DOMAIN tasks : TaskGet(i)
    \/ \E i \in DOMAIN tasks : TaskResponse(i)
    \/ \E i \in DOMAIN tasks : TaskSet(i)
    \/ FetchResume

Spec == InitStream /\ [][Next]_vars

\* ======================================================= batching: claims
Done(i) == tasks[i].pc = "done"

Failed(i) == tasks[i].pc = "failed"

Keys == DOMAIN result.data

\* occurrences of code c in the input list and in the chunks
CountInput(c) == Cardinality({j \in DOMAIN stopCodes : stopCodes[j] = c})

CountChunks(c) ==
    Cardinality({<<i, j>> \in (DOMAIN tasks) \X (1..chunkSize) :
                    j \in DOMAIN tasks[i].chunk /\ tasks[i].chunk[j] = c})

BatchCall == kind = "none" /\ callState \in {"running", "returned"}

\* C8: for N >= 1 identifiers the batching lookup forms exactly ceil(N/10)
\* chunks of 1..10 identifiers that together hold the input list's identifiers
\* as often as the list does; no request carries more than 10 identifiers, and
\* from a cold cache exactly one request is issued per chunk.
C8_ChunksPartitionInput ==
    (BatchCall /\ Len(stopCodes) >= 1) =>
        /\ Len(tasks) = Ceil(Len(stopCodes), 10)
        /\ \A i \in DOMAIN tasks : Len(tasks[i].chunk) >= 1 /\ Len(tasks[i].chunk) <= 10
        /\ \A c \in Range(stopCodes) : CountInput(c) = CountChunks(c)
        /\ \A i \in DOMAIN tasks : Range(tasks[i].chunk) \subseteq Range(stopCodes)
        /\ \A r \in DOMAIN requests : Len(requests[r]) <= 10
        /\ coldStart => Len(requests) <= Len(tasks)
        /\ (coldStart /\ callState = "returned") =>
              /\ Len(requests) = Len(tasks)
              /\ \A i \in DOMAIN tasks :
                    Cardinality({r \in DOMAIN requests : requests[r] = tasks[i].chunk})
                      = Cardinality({j \in DOMAIN tasks : tasks[j].chunk = tasks[i].chunk})

\* 12 identifiers, cold cache: two requests, of 10 and of 2 identifiers
C8_Witness ==
    /\ BatchCall
    /\ callState = "returned"
    /\ coldStart
    /\ Len(stopCodes) = 12
    /\ Len(requests) = 2
    /\ {Len(requests[1]), Len(requests[2])} = {10, 2}

FailedIds == UNION {Range(tasks[i].chunk) : i \in {j \in DOMAIN tasks : Failed(j)}}

\* C9 as claimed: the key set of the returned map is the input identifiers
\* minus the identifiers of the failed chunks.
C9_KeysAreInputMinusFailed ==
    (BatchCall /\ callState = "returned") => Keys = Range(stopCodes) \ FailedIds

\* C9 as amended: the key set is a subset of the input identifiers, namely the
\* union of the key sets of the maps of the chunks that did not fail; a
\* prediction chunk answered 2xx with a response object contributes all its
\* identifiers, a chunk answered 404 or with a null body none, and every key
\* occurs in a chunk that did not fail.
C9_KeysAreUnionOfChunkMaps ==
    (BatchCall /\ callState = "returned") =>
        /\ Keys \subseteq Range(stopCodes)
        /\ Keys = UNION {DOMAIN tasks[i].fresh.data : i \in {j \in DOMAIN tasks : Done(j)}}
        /\ \A i \in DOMAIN tasks :
              /\ (Done(i) /\ op = "predictions" /\ tasks[i].status = "ok")
                    => Range(tasks[i].chunk) \subseteq Keys
              /\ (Done(i) /\ tasks[i].status \in {"notfound", "empty"})
                    => DOMAIN tasks[i].fresh.data = {}
              /\ Done(i) => DOMAIN tasks[i].fresh.data \subseteq Range(tasks[i].chunk)
        /\ \A c \in Keys : \E i \in DOMAIN tasks : Done(i) /\ c \in Range(tasks[i].chunk)

\* a call in which one chunk was answered 404 and another one 2xx
C9_Witness ==
    /\ BatchCall
    /\ callState = "returned"
    /\ \E i, j \in DOMAIN tasks :
          /\ tasks[i].status = "notfound"
          /\ tasks[j].status = "ok"
          /\ Range(tasks[j].chunk) \subseteq Keys
          /\ ~(Range(tasks[i].chunk) \subseteq Keys)

\* the parts of C10 that do not depend on repeated identifiers: the call does
\* not fail, every chunk is dispatched and settles, and the map of every chunk
\* that did not fail is merged in full
SiblingsMerged ==
    /\ (kind = "none") => callState # "threw"
    /\ (BatchCall /\ callState = "returned") =>
          /\ Len(tasks) = Ceil(Len(stopCodes), 10)
          /\ \A i \in DOMAIN tasks : Done(i) \/ Failed(i)
          /\ \A i \in DOMAIN tasks : Done(i) =>
                \A k \in DOMAIN tasks[i].fresh.data :
                    /\ k \in Keys
                    /\ \E j \in DOMAIN tasks :
                          /\ Done(j)
                          /\ k \in DOMAIN tasks[j].fresh.data
                          /\ result.data[k] = tasks[j].fresh.data[k]

\* C10 as claimed: a chunk's failure is caught for that chunk only, the
\* siblings are merged in full, and no identifier of the failed chunk is a key
\* of the result.
C10_NoIdOfFailedChunkInResult ==
    /\ SiblingsMerged
    /\ (BatchCall /\ callState = "returned") => Keys \cap FailedIds = {}

\* C10 as amended: a chunk's failure is caught for that chunk only, the
\* siblings are merged in full, and no identifier that occurs only in failed
\* chunks is a key of the result.
C10_FailureIsolatedPerChunk ==
    /\ SiblingsMerged
    /\ (BatchCall /\ callState = "returned") =>
          \A c \in Keys \cap FailedIds :
              \E j \in DOMAIN tasks : Done(j) /\ c \in DOMAIN tasks[j].fresh.data

\* one chunk failed, its sibling was fetched and merged
C10_Witness ==
    /\ BatchCall
    /\ callState = "returned"
    /\ \E i, j \in DOMAIN tasks :
          /\ Failed(i)
          /\ tasks[i].status = "error"
          /\ Done(j)
          /\ tasks[j].status = "ok"
          /\ DOMAIN tasks[j].fresh.data # {}
          /\ DOMAIN tasks[j].fresh.data \subseteq Keys

KeySet(opx, codes) ==
    {TasksFor(opx, codes)[i].key : i \in DOMAIN TasksFor(opx, codes)}

\* two lists hold the same identifiers, each as often
SameIdentifiers(a, b) ==
    /\ Len(a) = Len(b)
    /\ \A c \in Range(a) \cup Range(b) :
          Cardinality({j \in DOMAIN a : a[j] = c}) = Cardinality({j \in DOMAIN b : b[j] = c})

\* C11: any two orderings of the same identifier list, of any length, give
\* the same set of chunk cache keys.
C11_KeysIndependentOfOrder ==
    BatchCall =>
        \A other \in InputLists :
            SameIdentifiers(other, stopCodes) => KeySet(op, other) = KeySet(op, stopCodes)

\* the chunk maps merged in dispatch order, whatever order they arrived in
RECURSIVE MergedInDispatchOrder(_)
MergedInDispatchOrder(n) ==
    IF n = 0 THEN EmptyMap
    ELSE IF Done(n) THEN MapMerge(MergedInDispatchOrder(n - 1), tasks[n].fresh.data)
    ELSE MergedInDispatchOrder(n - 1)

\* C12: the map a batching call returns is determined by the chunks' maps
\* alone: every order of chunk completions gives the map that completion in
\* dispatch order gives, also when an identifier sits in more than one chunk.
C12_ResultIndependentOfCompletionOrder ==
    (BatchCall /\ callState = "returned") =>
        result.data = MergedInDispatchOrder(Len(tasks))

\* ===================================================== raw lookups: claims
RawLookup == kind = "none" /\ Len(tasks) = 1 /\ tasks[1].pc # "get"

\* C13: a profile or prediction lookup for more than 10 identifiers fails
\* with an error, and no HTTP request is issued for it.
C13_OverLimitFailsBeforeRequest ==
    (RawLookup /\ op \in BatchOps /\ Len(tasks[1].chunk) > 10) =>
        /\ tasks[1].pc = "failed"
        /\ tasks[1].resp = NoResponse
        /\ requests = <<>>
        /\ callState # "returned"

\* a prediction lookup for 11 identifiers was rejected
C13_Witness ==
    /\ RawLookup
    /\ op = "predictions"
    /\ Len(tasks[1].chunk) = 11
    /\ callState = "threw"
    /\ requests = <<>>

\* C14: for the profile, prediction and vehicle-position lookups an HTTP 404
\* gives an empty result and no error; every other non-success answer makes
\* the lookup throw to its caller.
C14_NotFoundIsEmptyOtherStatusThrows ==
    (RawLookup /\ op \in {"profiles", "predictions", "actVehicles"}) =>
        /\ (tasks[1].resp.status = "notfound") =>
              /\ tasks[1].pc = "done"
              /\ tasks[1].fresh = (IF op = "actVehicles" THEN JsonValue(<<>>)
                                   ELSE MapValue(EmptyMap))
              /\ callState # "threw"
        /\ (tasks[1].resp.status = "error") =>
              /\ tasks[1].pc = "failed"
              /\ callState # "returned"

\* the vehicle-position lookup was answered 404 and returned an empty list
C14_Witness ==
    /\ RawLookup
    /\ op = "actVehicles"
    /\ tasks[1].resp.status = "notfound"
    /\ callState = "returned"
    /\ result = JsonValue(<<>>)

IsNumericString(t) == t # <<>> /\ \A j \in DOMAIN t : IsDigit(t[j])

\* C15: the system-time lookup returns an instant only when the answer carries
\* a tm field that is a numeric string, and then the instant is that number of
\* milliseconds; in every other case (field missing, field not numeric, non-2xx
\* status) the lookup throws.
C15_SystemTimeOnlyFromNumericField ==
    (RawLookup /\ op = "time" /\ tasks[1].pc \in {"done", "failed"}) =>
        IF /\ tasks[1].resp.status = "ok"
           /\ tasks[1].resp.payload.has
           /\ IsNumericString(tasks[1].resp.payload.tm)
        THEN /\ tasks[1].pc = "done"
             /\ tasks[1].fresh = DateValue(Decimal(tasks[1].resp.payload.tm))
        ELSE tasks[1].pc = "failed"

\* ------------------------------------------------- claims about the cache
ProducerCall == kind = "none" /\ op = "producer"

\* the producer of task i has resolved with a value
Produced(i) == i \in DOMAIN tasks /\ tasks[i].resp.status = "ok"

ClaimedShapes ==
    {"string", "number", "boolean", "Date", "Map", "Set", "Buffer", "undefined"}

SameValue(a, b) == a.shape = b.shape /\ a.data = b.data

SamePayload(a, b) == a.type = b.type /\ a.value = b.value

RoundTrip(v) == unwrapDeserialized(deserializeValue(serializeValue(v)))

\* C16: every value of the shapes string, finite number, boolean, Date, Map,
\* Set, Buffer and undefined that a producer hands to the cache comes back from
\* deserializeValue(serializeValue(v)) equal to itself, with the same shape
C16_RoundTripPreservesValue ==
    \A i \in DOMAIN tasks :
        (ProducerCall /\ Produced(i) /\ tasks[i].fresh.shape \in ClaimedShapes) =>
            SameValue(RoundTrip(tasks[i].fresh), tasks[i].fresh)

\* the store a get or a set went to
StoreOf(via) == IF via = "redis" THEN redisStore ELSE memoryCache

\* the entry of key in that store has not run out
LiveIn(via, key) ==
    /\ key \in DOMAIN StoreOf(via)
    /\ IF via = "redis" THEN now < redisStore[key].expires
       ELSE now <= memoryCache[key].expires

\* a producer's results that stand for "nothing": null, undefined, an empty
\* Map, an empty array, an empty Set
EmptyResults ==
    {NullValue, UndefinedValue, MapValue(EmptyMap), JsonValue(<<>>), SetValue({})}

HoldsEmptyResult(via, key) ==
    /\ LiveIn(via, key)
    /\ \E v \in EmptyResults : SamePayload(StoreOf(via)[key].value, serializeValue(v))

\* C17: getCachedOrFetch never invokes the producer when the store its get
\* consulted holds a live entry with a producer's empty result
C17_EmptyResultIsAHit ==
    [][\A i \in DOMAIN tasks :
          ~(/\ ProducerCall
            /\ i \in DOMAIN tasks'
            /\ tasks[i].pc = "get"
            /\ tasks'[i].pc = "http"
            /\ HoldsEmptyResult(tasks'[i].getVia, tasks[i].key))]_vars

\* C18: a get that returns a value found, in the store that served it, an entry
\* whose time of expiry (the time of its set plus ttl) is not yet past
C18_NoHitAfterExpiry ==
    [][\A i \in DOMAIN tasks :
          (/\ ProducerCall
           /\ i \in DOMAIN tasks'
           /\ tasks[i].pc = "get"
           /\ tasks'[i].status = "hit")
          => /\ tasks[i].key \in DOMAIN StoreOf(tasks'[i].getVia)
             /\ now <= StoreOf(tasks'[i].getVia)[tasks[i].key].expires]_vars

\* a get later than the entry's expiry found the entry in Redis and missed
C18_Witness ==
    /\ ProducerCall
    /\ Len(tasks) = 1
    /\ tasks[1].getVia = "redis"
    /\ tasks[1].pc = "http"
    /\ tasks[1].key \in DOMAIN redisStore
    /\ now > redisStore[tasks[1].key].expires

\* C19: no get and no set fails because of Redis: a get whose Redis command
\* threw answers from the fallback map, and a set whose Redis command threw
\* leaves the entry in the fallback map
C19_RedisErrorFallsBack ==
    \A i \in DOMAIN tasks :
        ProducerCall =>
            /\ tasks[i].status # "cache_error"
            /\ (tasks[i].getVia = "fallback" /\ tasks[i].status = "hit") =>
                   /\ tasks[i].key \in DOMAIN memoryCache
                   /\ SameValue(tasks[i].fresh,
                                unwrapDeserialized(deserializeValue(
                                    memoryCache[tasks[i].key].value)))
            /\ tasks[i].setVia = "fallback" =>
                   /\ tasks[i].pc = "done"
                   /\ tasks[i].key \in DOMAIN memoryCache
                   /\ SamePayload(memoryCache[tasks[i].key].value,
                                  serializeValue(tasks[i].fresh))

\* a get answered by the fallback map after its Redis command threw
C19_Witness ==
    /\ ProducerCall
    /\ Len(tasks) = 1
    /\ tasks[1].getVia = "fallback"
    /\ tasks[1].status = "hit"

\* C20: with ENABLE_CACHE, a getCachedOrFetch whose get returned a value
\* returns that value and invokes no producer; one whose get returned null
\* invokes the producer exactly once and, when it resolves, stores the result
\* under the key with the ttl and returns it
C20_HitSkipsProducerMissStoresResult ==
    \A i \in DOMAIN tasks :
        (ProducerCall /\ ENABLE_CACHE) =>
            /\ tasks[i].status = "hit" =>
                   /\ requests = <<>>
                   /\ tasks[i].resp = NoResponse
                   /\ SameValue(result, tasks[i].fresh)
            /\ (tasks[i].pc # "get" /\ tasks[i].status \notin {"hit", "cache_error"}) =>
                   Len(requests) = 1
            /\ (tasks[i].pc = "done" /\ tasks[i].status = "ok") =>
                   /\ SameValue(result, tasks[i].fresh)
                   /\ tasks[i].key \in DOMAIN StoreOf(tasks[i].setVia)
                   /\ SamePayload(StoreOf(tasks[i].setVia)[tasks[i].key].value,
                                  serializeValue(tasks[i].fresh))
                   /\ callState = "running" =>
                          StoreOf(tasks[i].setVia)[tasks[i].key].expires
                              = now + DEFAULT_TTL * 1000

\* a second call answered from the cache
C20_Witness ==
    /\ ProducerCall
    /\ calls = 2
    /\ callState = "returned"
    /\ Len(tasks) = 1
    /\ tasks[1].status = "hit"
    /\ result.shape = "Map"

\* ------------------------------------ claims about the timestamp resolver
Resolved == fn \in Resolvers

IsNumeric(t) == t # <<>> /\ \A i \in DOMAIN t : IsDigit(t[i])

\* date, space, time with five numeric fields
AllNumeric == input.value.form = "stamp" /\ \A i \in 1..5 : IsNumeric(input.value.fields[i])

Field(i) == Decimal(input.value.fields[i])

\* the wall-clock time the fields name, counted like an instant
WallClock == DateUTC(Field(1), Field(2) - 1, Field(3), Field(4), Field(5))

\* a well-formed string naming a wall-clock time that exists in
\* America/Los_Angeles: a day of the month, and not in the hour skipped on
\* 2025-03-09
ExistsInZone ==
    /\ AllNumeric
    /\ Field(2) \in 1..12
    /\ Field(3) \in 1..DaysInMonth[Field(2)]
    /\ Field(4) \in 0..23
    /\ Field(5) \in 0..59
    /\ ~(WallClock >= DateUTC(2025, 2, 9, 2, 0) /\ WallClock < DateUTC(2025, 2, 9, 3, 0))

\* C27: for a well-formed string naming a wall-clock time that exists in
\* America/Los_Angeles the resolver returns an instant whose wall-clock fields
\* in that zone are the input's fields, whatever zone the process runs in
C27_WallClockInOperatorZone ==
    (Resolved /\ ExistsInZone) =>
        output + getTimezoneOffsetMinutes(output) = WallClock

\* the input is missing, lacks the date-space-time form, has a date part not 8
\* characters long, a non-numeric field, or a field out of range
Malformed ==
    \/ input.value.form # "stamp"
    \/ ~AllNumeric
    \/ Field(2) \notin 1..12
    \/ Field(3) \notin 1..31
    \/ Field(4) \notin 0..23
    \/ Field(5) \notin 0..59

\* C28: for a missing or malformed input, or one with a month, day, hour or
\* minute out of range, the resolver returns the current instant
C28_MalformedGivesCurrentInstant ==
    (Resolved /\ Malformed) => output = input.clock

\* --------------------------------------- claims about the fallback map
\* C23: a set served by the fallback map that leaves the map with more entries
\* than the cleanup threshold sweeps in the same operation: straight after it
\* the map holds no entry whose expiry has passed
C23_OverflowingSetSweepsExpired ==
    [][(/\ op = "set"
        /\ calls' = calls + 1
        /\ tasks'[1].setVia \in {"memory", "fallback"}
        /\ Cardinality((DOMAIN memoryCache) \cup {tasks'[1].key}) > cleanupThreshold)
       => \A k \in DOMAIN memoryCache' : ~(now > memoryCache'[k].expires)]_vars

\* a set beyond the threshold has just removed expired entries
C23_Witness ==
    /\ op = "set"
    /\ tasks # <<>>
    /\ tasks[1].chunk[1] = calls
    /\ calls > cleanupThreshold
    /\ Cardinality(DOMAIN memoryCache) < cleanupThreshold
    /\ tasks[1].key \in DOMAIN memoryCache

\* ------------------------------------ claims about concurrent cache calls
ConcurrentCallers == kind = "none" /\ op = "callers"

\* v is one whole value that an invocation of the producer made for key chunk
CompleteValueFor(v, chunk) ==
    /\ v.shape = "json"
    /\ Len(v.data) = 2
    /\ v.data[1] = v.data[2]
    /\ v.data[1].key = chunk
    /\ v.data[1].writer[1] \in 1..calls
    /\ v.data[1].writer[2] \in 1..MaxCallers

\* C21: under every interleaving of concurrent gets and sets, a value that get
\* returns is one whole value that some set stored under that key: not a
\* mixture of two writes and not a value of another key
C21_GetReturnsOneCompleteWrite ==
    \A i \in DOMAIN tasks :
        (ConcurrentCallers /\ tasks[i].status = "hit") =>
            CompleteValueFor(tasks[i].fresh, tasks[i].chunk)

\* a caller's get returned the value that a concurrent caller wrote under the
\* same key, over an entry of an earlier call
C21_Witness ==
    /\ ConcurrentCallers
    /\ calls = 2
    /\ \E i \in DOMAIN tasks : \E j \in DOMAIN tasks :
          /\ i # j
          /\ tasks[i].chunk = tasks[j].chunk
          /\ tasks[i].status = "hit"
          /\ tasks[i].fresh.data[1].writer = <<calls, j>>

\* the caller's get returned null
Missed(i) == tasks[i].pc # "get" /\ tasks[i].status # "hit"

\* C22: getCachedOrFetch has no single flight: every caller whose get missed
\* invokes its own producer, so two concurrent callers of one cold key invoke
\* the producer twice
C22_EveryMissInvokesItsProducer ==
    ConcurrentCallers => Len(requests) = Cardinality({i \in DOMAIN tasks : Missed(i)})

\* two concurrent callers of the same cold key, both producers in flight
C22_Witness ==
    /\ ConcurrentCallers
    /\ coldStart
    /\ \E i \in DOMAIN tasks : \E j \in DOMAIN tasks :
          /\ i # j
          /\ tasks[i].key = tasks[j].key
          /\ tasks[i].pc = "http"
          /\ tasks[j].pc = "http"
    /\ Len(requests) > 1

\* ============================================== polling subscriptions: claims
Polled == {"busPositions", "busStopPredictions"}

\* C1: once the consumer has cancelled, no fetch is started any more: the
\* pending interval wait is abandoned instead of running into the next poll.
C1_NoFetchAfterCancel == [][cancelled => fetches' = fetches]_vars

\* C2: nothing is emitted after the consumer has cancelled, neither a snapshot
\* nor an error.
C2_NoEmissionAfterCancel ==
    \A i \in DOMAIN emitted : ~emitted[i].afterCancel

\* C3: a steady-state poll in which an upstream call failed with a transient
\* error (the stop-profile lookup of the GTFS_REALTIME prediction source
\* included) does not terminate the stream with an error.
C3_TransientNeverTerminates ==
    \A i \in DOMAIN emitted :
        (emitted[i].phase = "polling" /\ emitted[i].upstreamTransient)
            => emitted[i].type # "error"

\* C4: in the steady state of busPositions and busStopPredictions a poll whose
\* fetch fails with a transient error (the fetch rejects with an error other
\* than NOT_FOUND) emits exactly one snapshot, the empty list; every finished
\* poll has emitted once.
C4_TransientPollEmitsEmptySnapshot ==
    (kind \in Polled) =>
        /\ \A i \in DOMAIN emitted :
              (emitted[i].phase = "polling" /\ emitted[i].outcome = "transient") =>
                  /\ emitted[i].type = "snapshot"
                  /\ emitted[i].value = <<>>
                  /\ \A j \in DOMAIN emitted : j # i => emitted[j].fetchNo # emitted[i].fetchNo
        /\ (pc \in {"yieldPoll", "yieldCatch"}) =>
              emitted[Len(emitted)].fetchNo = fetches

\* a transient failure right after a poll that delivered a non-empty snapshot
C4_Witness ==
    /\ kind \in Polled
    /\ ~cancelled
    /\ pc = "yieldCatch"
    /\ Len(emitted) >= 2
    /\ emitted[Len(emitted)].outcome = "transient"
    /\ emitted[Len(emitted)].value = <<>>
    /\ emitted[Len(emitted) - 1].value # <<>>

\* C5: a failed initial fetch, configuration-class or transient, is delivered
\* as exactly one terminal error: no snapshot is emitted, the stream ends, and
\* no fetch and no upstream request follows.
C5_PrimingFailureIsTerminal ==
    \A i \in DOMAIN emitted :
        (emitted[i].phase = "priming" /\ emitted[i].outcome # "ok") =>
            /\ emitted[i].type = "error"
            /\ Len(emitted) = 1
            /\ pc = "completed"
            /\ fetches = 1
            /\ waits = 0
            /\ httpCalls = emitted[i].httpNo

\* the initial fetch failed with a transient error and the stream has ended
C5_Witness ==
    /\ kind # "none"
    /\ ~cancelled
    /\ pc = "completed"
    /\ Len(emitted) = 1
    /\ emitted[1].phase = "priming"
    /\ emitted[1].outcome = "transient"
    /\ emitted[1].type = "error"

\* C6: the first next() starts exactly one fetch at once, with no interval wait
\* before it, and its result, empty or not, is emitted before the first
\* interval wait begins.
C6_PrimingFetchBeforeFirstWait ==
    (kind # "none") =>
        /\ (pulls >= 1) => fetches >= 1
        /\ (pc = "priming") => (fetches = 1 /\ waits = 0 /\ emitted = <<>>)
        /\ (emitted # <<>>) =>
              /\ emitted[1].phase = "priming"
              /\ emitted[1].fetchNo = 1
              /\ emitted[1].waitNo = 0
        /\ (waits >= 1) =>
              /\ emitted # <<>>
              /\ emitted[1].type = "snapshot"
              /\ emitted[1].outcome = "ok"

\* the initial fetch returned an empty result, which was emitted, and the
\* first interval wait has begun
C6_Witness ==
    /\ kind # "none"
    /\ pc = "wait"
    /\ waits = 1
    /\ Len(emitted) = 1
    /\ emitted[1].type = "snapshot"
    /\ emitted[1].value = <<>>
    /\ emitted[1].phase = "priming"

\* C7: a NOT_FOUND failure of a steady-state poll terminates the stream: the
\* error is delivered with code NOT_FOUND, it is the last emission, and no
\* fetch, interval wait or upstream request follows.
C7_NotFoundInPollTerminates ==
    \A i \in DOMAIN emitted :
        (emitted[i].phase = "polling" /\ emitted[i].outcome = "not_found") =>
            /\ emitted[i].type = "error"
            /\ emitted[i].code = "NOT_FOUND"
            /\ i = Len(emitted)
            /\ pc = "completed"
            /\ fetches = emitted[i].fetchNo
            /\ waits = emitted[i].waitNo
            /\ httpCalls = emitted[i].httpNo

\* a poll after a successful initial fetch found the stop gone
C7_Witness ==
    /\ kind # "none"
    /\ ~cancelled
    /\ pc = "completed"
    /\ Len(emitted) >= 2
    /\ emitted[1].type = "snapshot"
    /\ emitted[Len(emitted)].phase = "polling"
    /\ emitted[Len(emitted)].outcome = "not_found"
    /\ ~emitted[Len(emitted)].upstreamTransient
    /\ emitted[Len(emitted)].type = "error"

\* ------------------------------------------------------ normalizer claims
PredictionNormalizers ==
    {"createBusStopPredictionsFromActRealtime", "createBusStopPredictionsFromGtfsFeed"}

PositionNormalizers ==
    {"createBusPositionsFromGtfsFeed", "createBusPositionsFromActRealtime"}

\* C24: every prediction either normalizer emits has minutesAway >= 0,
\* whatever the arrival time or the countdown text of its record.
C24_MinutesAwayNeverNegative ==
    fn \in PredictionNormalizers =>
        \A i \in DOMAIN output : output[i].minutesAway >= 0

\* a record with a negative countdown was emitted
C24_Witness ==
    /\ fn = "createBusStopPredictionsFromActRealtime"
    /\ \E i \in DOMAIN output, j \in DOMAIN input.records :
         /\ input.records[j].vid = output[i].vehicleId
         /\ ~parseInt(input.records[j].prdctdn).nan
         /\ parseInt(input.records[j].prdctdn).n < 0
         /\ output[i].minutesAway = 0

\* the value is a finite number, or a string that reads as one
FiniteCoordinate(c) ==
    \/ c.kind = "number"
    \/ /\ c.kind = "string"
       /\ Trim(c.text) # <<>>
       /\ \A i \in DOMAIN Trim(c.text) : IsDigit(Trim(c.text)[i])

NonEmptyText(c) == c.kind = "string" /\ c.text # <<>>

NonBlankText(c) == c.kind = "string" /\ Trim(c.text) # <<>>

\* a GTFS entity with a vehicle that has an id (its descriptor's or, for a
\* descriptor without one, the entity's), a route id and finite coordinates
ValidVehicleEntity(e) ==
    /\ e.hasVehicle
    /\ IF e.descriptorId = Absent THEN NonEmptyText(e.id) ELSE NonEmptyText(e.descriptorId)
    /\ NonEmptyText(e.routeId)
    /\ FiniteCoordinate(e.latitude)
    /\ FiniteCoordinate(e.longitude)

\* a raw ACT record with a vehicle id, a route id and finite coordinates
ValidRawPosition(r) ==
    /\ NonBlankText(r.vid)
    /\ NonBlankText(r.rt)
    /\ FiniteCoordinate(r.lat)
    /\ FiniteCoordinate(r.lon)

ValidRecords ==
    {i \in DOMAIN input.records :
        IF fn = "createBusPositionsFromGtfsFeed" THEN ValidVehicleEntity(input.records[i])
        ELSE ValidRawPosition(input.records[i])}

RecordName(r) == IF fn = "createBusPositionsFromGtfsFeed" THEN r.id.text ELSE r.no

\* C25: a vehicle record is emitted exactly when it has a non-empty vehicle
\* id, a non-empty route id and finite coordinates: every position comes from
\* a valid record and carries no empty field, and the output is as long as the
\* number of valid records.
C25_ExactlyTheValidRecordsAreEmitted ==
    fn \in PositionNormalizers =>
        /\ Len(output) = Cardinality(ValidRecords)
        /\ \A i \in DOMAIN output :
             /\ output[i].vehicleId # <<>>
             /\ output[i].routeId # <<>>
             /\ \E j \in ValidRecords : RecordName(input.records[j]) = output[i].of

\* three records, one of them without coordinates, gave two positions
C25_Witness ==
    /\ fn \in PositionNormalizers
    /\ Len(input.records) = 3
    /\ Cardinality(ValidRecords) = 2
    /\ Len(output) = 2
    /\ \E j \in DOMAIN input.records :
         IF fn = "createBusPositionsFromGtfsFeed"
         THEN input.records[j].latitude = Absent
         ELSE ~FiniteCoordinate(input.records[j].lat)

\* C26: positions come out in ascending vehicleId order and predictions in
\* ascending arrivalTime order, whatever the order of the input.
C26_OutputsAreOrdered ==
    /\ fn \in PositionNormalizers =>
         \A i \in 1..(Len(output) - 1) :
            ~LocaleLess(output[i + 1].vehicleId, output[i].vehicleId)
    /\ fn \in PredictionNormalizers =>
         \A i \in 1..(Len(output) - 1) :
            output[i].arrivalTime <= output[i + 1].arrivalTime

\* two predictions were emitted in the opposite order of their entities
C26_Witness ==
    /\ fn = "createBusStopPredictionsFromGtfsFeed"
    /\ \A i, j \in DOMAIN input.records :
         input.records[i].id = input.records[j].id => i = j
    /\ \E a, b \in DOMAIN output, i, j \in DOMAIN input.records :
         /\ a < b
         /\ output[a].arrivalTime < output[b].arrivalTime
         /\ j < i
         /\ input.records[i].id.text = output[a].vehicleId
         /\ input.records[j].id.text = output[b].vehicleId

\* C30: every prediction of the GTFS-Realtime normalizer has isOutbound =
\* true exactly when the directionId of its trip is 0.
C30_OutboundIsDirectionZero ==
    fn = "createBusStopPredictionsFromGtfsFeed" =>
        \A i \in DOMAIN output, j \in DOMAIN input.records :
            input.records[j].id.text = output[i].vehicleId =>
                (output[i].isOutbound <=> input.records[j].directionId = 0)

\* ------------------------------------------------- unresolved stop lookup
\* the awaited lookup of a busStopPredictions fetch has settled and holds
\* nothing for the requested stop code
UnresolvedStop ==
    /\ kind = "busStopPredictions"
    /\ StreamRunning
    /\ ServiceSettled
    /\ step \in {"profiles", "predictions"}
    /\ callState # "threw"
    /\ Head(stopCodes) \notin DOMAIN result.data

\* C29: a stop lookup that cannot be resolved (no profile for the stop code,
\* no entry in the prediction map) is an empty result and not a failure: with
\* either data source the fetch ends in the emission of an empty list.
C29_UnresolvedStopGivesEmptyList ==
    [][(UnresolvedStop /\ emitted' # emitted) =>
          /\ emitted'[Len(emitted')].type = "snapshot"
          /\ emitted'[Len(emitted')].value = <<>>]_vars

\* ------------------------------------------------------ system-time stream
\* C31: every value the systemTime stream emits, in priming and in every
\* poll, is the instant a successful upstream lookup of that poll returned;
\* no locally generated instant stands in for a failed lookup.
C31_SystemTimeOnlyFromUpstream ==
    (kind = "systemTime") =>
        \A i \in DOMAIN emitted :
            emitted[i].type = "snapshot" =>
                /\ emitted[i].outcome = "ok"
                /\ emitted[i].value = <<"upstream">>

\* ---------------------------------------------------- pacing of the polls
\* C35: in one polling stream at most one fetch is in flight, and a
\* steady-state fetch starts only out of a polling-interval wait that has run
\* its full length and that began when the consumer asked for the next value
\* after the previous snapshot: no fetch starts while an emitted snapshot has
\* not been followed by the consumer's next().
C35_OneFetchPerConsumedSnapshot ==
    [][/\ (fetches' # fetches) =>
            /\ fetches' = fetches + 1
            /\ ~StreamRunning
            /\ callState # "running"
            /\ (fetches >= 1) =>
                  /\ pc = "wait"
                  /\ waits = fetches
                  /\ Len(emitted) = fetches
                  /\ pulls = Len(emitted) + 1
                  /\ now' >= now + POLLING_INTERVAL
       /\ (waits' # waits) =>
            /\ waits' = waits + 1
            /\ pulls' = pulls + 1
            /\ Len(emitted) = pulls
            /\ emitted[Len(emitted)].type = "snapshot"
            /\ pc \in {"yieldInitial", "yieldPoll", "yieldCatch"}]_vars

\* the second poll of a stream is fetching
C35_Witness ==
    /\ kind \in Polled
    /\ pc = "polling"
    /\ fetches = 3
    /\ waits = 2
    /\ Len(emitted) = 2
    /\ callState = "running"

\* ------------------------------------------------- direction of a request
\* C40: every prediction returned for a request has its isOutbound flag equal
\* to (requested direction = OUTBOUND), with either data source.
C40_FlagEqualsRequestedDirection ==
    fn \in PredictionNormalizers =>
        \A i \in DOMAIN output : output[i].isOutbound = input.isOutbound

\* an inbound request on records of both directions: some were emitted, some
\* were left out
C40_Witness ==
    /\ fn = "createBusStopPredictionsFromActRealtime"
    /\ ~input.isOutbound
    /\ output # <<>>
    /\ \E j \in DOMAIN input.records : isOutboundDirection(input.records[j].rtdir)

\* --------------------------------------------------- stored null and miss
\* the store holds a live entry for the key whose payload is the stored null
HoldsNull(via, key) ==
    /\ LiveIn(via, key)
    /\ SamePayload(StoreOf(via)[key].value, serializeValue(NullValue))

\* C37: get reports a stored null exactly like a miss: whether the store
\* consulted holds null for the key or holds nothing live, getCachedOrFetch
\* gets null and invokes the producer, on every call.
C37_StoredNullIsAMiss ==
    [][\A i \in DOMAIN tasks :
          (/\ ProducerCall
           /\ i \in DOMAIN tasks'
           /\ tasks[i].pc = "get"
           /\ tasks'[i].pc # "get"
           /\ \/ ~LiveIn(tasks'[i].getVia, tasks[i].key)
              \/ HoldsNull(tasks'[i].getVia, tasks[i].key))
          => /\ tasks'[i].pc = "http"
             /\ tasks'[i].status # "hit"
             /\ Len(requests') = 1]_vars

\* the second call found the null its first call had stored and invoked the
\* producer again
C37_Witness ==
    /\ ProducerCall
    /\ calls = 2
    /\ Len(tasks) = 1
    /\ tasks[1].pc = "http"
    /\ HoldsNull(tasks[1].getVia, tasks[1].key)

C34_LaterStartedFetchWins ==
    ConcurrentCallers =>
        \A i \in DOMAIN tasks : \A j \in DOMAIN tasks :
            (/\ tasks[i].key = tasks[j].key
             /\ tasks[i].pc = "done" /\ tasks[i].status = "ok"
             /\ tasks[j].pc = "done" /\ tasks[j].status = "ok"
             /\ tasks[i].startNo < tasks[j].startNo
             /\ tasks[i].key \in DOMAIN memoryCache)
            => memoryCache[tasks[i].key].value.value[1].writer # <<calls, i>>

\* ------------------------------------------- eviction from the fallback map
\* C38: neither the sweep of a set beyond the threshold nor the lazy eviction
\* of get removes an entry of the fallback map that has not expired: every
\* call leaves each such entry in the map as it was.
C38_UnexpiredEntriesAreKept ==
    [][op = "set" =>
        \A k \in DOMAIN memoryCache :
            ~(now > memoryCache[k].expires)
            => (k \in DOMAIN memoryCache' /\ memoryCache'[k] = memoryCache[k])]_vars

\* a get has just evicted an expired entry of a map that holds live ones, and
\* a get of a live entry was served
C38_Witness ==
    /\ op = "set"
    /\ calls = cleanupThreshold
    /\ tasks # <<>>
    /\ tasks[1].getVia = "memory"
    /\ tasks[1].status = "hit"
    /\ Cardinality(DOMAIN memoryCache) < calls
    /\ \E k \in DOMAIN memoryCache : ~(now > memoryCache[k].expires)

\* ------------------------------------ cache.set and cache.get on one key
\* how many sets, gets and foreign writes one behaviour holds
MaxOps == 3

StoreKey == <<"key", <<1>>>>

\* the type tags deserializeValue knows
KnownTypes ==
    {"null", "undefined", "string", "number", "boolean", "date", "map", "set",
     "buffer", "json"}

\* texts that JSON.parse rejects, and a payload with a tag of no case
CorruptPayloads ==
    {[type |-> "invalid-json", value |-> <<>>], [type |-> "symbol", value |-> <<>>]}

StoreRecord(what, val, getVia, setVia) ==
    [chunk |-> <<calls + 1>>, key |-> StoreKey, pc |-> "done", status |-> what,
     resp |-> NoResponse, fresh |-> val, getVia |-> getVia, setVia |-> setVia,
     startNo |-> 0]

\* cache.set(key, n, ttl), n the number of the set
StoreSet ==
    /\ kind = "none"
    /\ op = "store"
    /\ calls < MaxOps
    /\ \E path \in StorePaths :
         LET value == NumberValue(Len(requests) + 1)
             s == set(StoreKey, value, DEFAULT_TTL, path)
         IN  /\ redisStore' = s.redis
             /\ memoryCache' = s.mem
             /\ tasks' = <<StoreRecord("set", value, "none", s.via)>>
    /\ requests' = Append(requests, <<Len(requests) + 1>>)
    /\ calls' = calls + 1
    /\ UNCHANGED <<ENABLE_CACHE, redisConfigured, isRedisAvailable, now, httpCalls>>
    /\ UNCHANGED <<stopCodes, op, callState, result, coldStart>>
    /\ UNCHANGED streamVars
    /\ UNCHANGED formatVars

\* cache.get(key)
StoreGet ==
    /\ kind = "none"
    /\ op = "store"
    /\ calls < MaxOps
    /\ \E path \in StorePaths :
         LET g == get(StoreKey, path)
         IN  /\ memoryCache' = g.mem
             /\ result' = g.val
             /\ callState' = IF g.threw THEN "threw" ELSE "returned"
             /\ tasks' = <<StoreRecord("get", g.val, g.via, "none")>>
    /\ calls' = calls + 1
    /\ UNCHANGED <<ENABLE_CACHE, redisConfigured, isRedisAvailable, redisStore, now, httpCalls>>
    /\ UNCHANGED <<stopCodes, op, requests, coldStart>>
    /\ UNCHANGED streamVars
    /\ UNCHANGED formatVars

\* another client of the Redis server writes the key: a text that is not JSON,
\* or a payload of a type this cache does not know
ForeignWrite ==
    /\ kind = "none"
    /\ op = "store"
    /\ redisConfigured
    /\ calls < MaxOps
    /\ \E payload \in CorruptPayloads :
         /\ redisStore' = [k \in (DOMAIN redisStore) \cup {StoreKey} |->
                              IF k = StoreKey
                              THEN [value |-> payload, expires |-> now + DEFAULT_TTL * 1000]
                              ELSE redisStore[k]]
         /\ tasks' = <<StoreRecord("foreign", Miss, "none", "none")>>
    /\ calls' = calls + 1
    /\ UNCHANGED <<ENABLE_CACHE, redisConfigured, isRedisAvailable, memoryCache, now, httpCalls>>
    /\ UNCHANGED <<stopCodes, op, callState, result, requests, coldStart>>
    /\ UNCHANGED streamVars
    /\ UNCHANGED formatVars

InitStore ==
    /\ InitNoFormatter
    /\ InitCache
    /\ ENABLE_CACHE = TRUE
    /\ redisConfigured = TRUE
    /\ InitNoStream
    /\ stopCodes = <<>>
    /\ op = "store"
    /\ callState = "idle"
    /\ tasks = <<>>
    /\ result = Miss
    /\ requests = <<>>
    /\ calls = 0
    /\ coldStart = TRUE
    /\ httpCalls = 0

NextStore ==
    \/ StoreSet
    \/ StoreGet
    \/ ForeignWrite
    \/ RedisConnect
    \/ RedisError

SpecStore == InitStore /\ [][NextStore]_vars

StoreCall == kind = "none" /\ op = "store"

\* the last operation was a get
AfterGet == StoreCall /\ tasks # <<>> /\ tasks[1].status = "get"

\* C33: for one key, after any sequence of sets and of connect and error
\* events of Redis, get returns a miss or the value of the most recent
\* completed set, never the value of a set that a later one superseded.
C33_GetNeverReturnsSupersededValue ==
    AfterGet =>
        \/ IsNull(result)
        \/ SameValue(result, NumberValue(Len(requests)))

\* the store a get consulted holds, live, a payload that cannot be deserialized
HoldsCorrupt(via, key) ==
    /\ LiveIn(via, key)
    /\ StoreOf(via)[key].value.type \notin KnownTypes

\* C39: a stored payload that cannot be deserialized (a text that is not
\* JSON, a type tag of no case) makes get return a miss, and get never raises.
C39_CorruptPayloadIsAMiss ==
    AfterGet =>
        /\ callState # "threw"
        /\ HoldsCorrupt(tasks[1].getVia, StoreKey) => SameValue(result, NullValue)

\* a get has just read a corrupt payload from the store it consulted
C39_Witness ==
    /\ AfterGet
    /\ callState = "returned"
    /\ HoldsCorrupt(tasks[1].getVia, StoreKey)

\* ------------------------------------------- a decoded feed through the cache
\* a number as JSON text holds it and JSON.parse reads it back: the decoded
\* message writes a non-finite number as its name, a string
JsonNumber(value) == IF value.kind = "nan" THEN Str(<<"N", "a", "N">>) ELSE value

\* a feed entity after serializeValue and deserializeValue: JSON.stringify
\* writes the properties the decoded object itself has, so a field read from
\* the class's default is undefined on the object a cache hit returns
JsonFeedEntity(entity) ==
    [entity EXCEPT !.descriptorId = IF "descriptorId" \in entity.defaults THEN Absent ELSE @,
                   !.latitude = JsonNumber(@),
                   !.longitude = JsonNumber(@),
                   !.defaults = {}]

\* C36: a cache hit is transparent for a decoded GTFS feed: the feed a hit
\* returns normalizes to the same positions (same identifiers and coordinates)
\* as the freshly decoded feed of the miss that stored it.
C36_CacheHitFeedNormalizesAlike ==
    fn = "createBusPositionsFromGtfsFeed" =>
        createBusPositionsFromGtfsFeed(
            [i \in DOMAIN input.records |-> JsonFeedEntity(input.records[i])]) = output

====
